---------------------------- MODULE Spec2Model ----------------------------
(***************************************************************************)
(* The agent tool-orchestration loops of the FastMCP companion toolkit:    *)
(*   fastmcp_netflix/client/main.py   (run_repl + chat)                    *)
(*   puppy_guide/client/main.py       (run_repl + chat)                    *)
(*   mcp-client/client.py             (main, one-shot)                     *)
(* and the client handlers (elicitation, progress, logging) with the       *)
(* conversion of the tool descriptors to the LLM's function format.        *)
(*                                                                         *)
(* Text is a sequence of tokens (a user line is a sequence of characters). *)
(* An optional value is a sequence of length 0 (None) or 1 (the value).    *)
(***************************************************************************)
EXTENDS Integers, Sequences, FiniteSets, TLC

VARIABLES
    client,         \* which program runs: "netflix", "puppy" or "mcp"
    MAX_HISTORY,    \* int(os.getenv("MAX_HISTORY", "10"))
    pc,             \* position of the loop
    messages,       \* History
    response,       \* assistant_message / response.choices[0].message
    idx,            \* position of the for loop over tool_calls
    outcome,        \* what the latest tool dispatch produced
    user_input,     \* the stripped line read by the REPL
    answer,         \* what chat returned / main printed
    last,           \* label of the latest step taken
    turn,           \* number of user turns started (scenario observer)
    request,        \* elicitation request handed to the handler
    stdin,          \* the line the terminal would deliver to input()
    elicit_result,  \* what the elicitation handler returned
    consumed,       \* number of lines the handler read from the terminal
    mcp_tools,      \* the tool descriptors list_tools returned
    tools,          \* the OpenAI-format tool list, once built
    notification,   \* a progress or log notification sent by the server
    shown,          \* what the notification handler printed or logged
    session,        \* the server's session state: favorites, dog_name
    invocations,    \* the tool invocations the server runs for the session
    cancelling,     \* a SIGINT has asked asyncio.run to cancel the main task
    offered,        \* the tools argument of the latest completions.create
    hitl_request,   \* action requests of the agent's pending interrupt
    inputs,         \* what the agent is invoked with next
    confirmations   \* lines read by _approve_tool_calls in this call

loopVars == <<client, MAX_HISTORY, pc, messages, response, idx, outcome,
              user_input, answer, last>>
elicitVars == <<request, stdin, elicit_result, consumed>>
bridgeVars == <<mcp_tools, tools>>
notifyVars == <<notification, shown>>
serverVars == <<session, invocations>>
signalVars == <<cancelling>>
offerVars == <<offered>>
agentVars == <<hitl_request, inputs, confirmations>>
auxVars == <<elicitVars, bridgeVars, notifyVars, serverVars, signalVars,
             offerVars, agentVars>>
vars == <<client, MAX_HISTORY, pc, messages, response, idx, outcome,
          user_input, answer, last, turn, request, stdin, elicit_result,
          consumed, mcp_tools, tools, notification, shown, session,
          invocations, cancelling, offered, hitl_request, inputs,
          confirmations>>

----------------------------------------------------------------------------
(* Bounds of the model *)

\* tool-call requests the LLM may emit during one user turn (all rounds)
MaxToolCallsPerTurn == 2
\* largest MAX_HISTORY setting explored by the full loop
MaxHistorySetting == 4
\* user turns explored by the no-tool scenario
MaxTurns == 7

\* MAX_HISTORY = int(os.getenv("MAX_HISTORY", "10")): the default
DefaultMaxHistory == 10

----------------------------------------------------------------------------
(* Optional values and text *)

None == <<>>
Some(x) == <<x>>

RECURSIVE SumSeq(_)
SumSeq(s) == IF s = <<>> THEN 0 ELSE Head(s) + SumSeq(Tail(s))

Last(s) == s[Len(s)]

Whitespace == {" ", "\t"}

\* str.strip(): drop leading and trailing whitespace
RECURSIVE LStrip(_)
LStrip(s) ==
    IF s # <<>> /\ Head(s) \in Whitespace THEN LStrip(Tail(s)) ELSE s

RECURSIVE RStrip(_)
RStrip(s) ==
    IF s # <<>> /\ Last(s) \in Whitespace
    THEN RStrip(SubSeq(s, 1, Len(s) - 1))
    ELSE s

\* a variant that keeps the line as typed
StripNothing(s) == s

Strip(s) == RStrip(LStrip(s))

Uppers == <<"A","B","C","D","E","F","G","H","I","J","K","L","M",
            "N","O","P","Q","R","S","T","U","V","W","X","Y","Z">>
Lowers == <<"a","b","c","d","e","f","g","h","i","j","k","l","m",
            "n","o","p","q","r","s","t","u","v","w","x","y","z">>

LowerChar(c) ==
    IF \E i \in 1..Len(Uppers) : Uppers[i] = c
    THEN Lowers[CHOOSE i \in 1..Len(Uppers) : Uppers[i] = c]
    ELSE c

\* str.lower()
Lower(s) == [i \in 1..Len(s) |-> LowerChar(s[i])]

Digits == <<"0","1","2","3","4","5","6","7","8","9">>
IsDigit(c) == \E i \in 1..10 : Digits[i] = c
DigitValue(c) == (CHOOSE i \in 1..10 : Digits[i] = c) - 1

RECURSIVE DigitsValue(_)
DigitsValue(s) ==
    IF s = <<>> THEN 0
    ELSE 10 * DigitsValue(SubSeq(s, 1, Len(s) - 1)) + DigitValue(Last(s))

\* int(raw): an optional sign and at least one decimal digit, or ValueError
ParseInt(raw) ==
    LET signed == raw # <<>> /\ Head(raw) \in {"-", "+"}
        body == IF signed THEN Tail(raw) ELSE raw
        ok == body # <<>> /\ \A i \in 1..Len(body) : IsDigit(body[i])
    IN  IF ~ok THEN [ok |-> FALSE, value |-> 0]
        ELSE [ok |-> TRUE,
              value |-> IF signed /\ Head(raw) = "-"
                        THEN 0 - DigitsValue(body)
                        ELSE DigitsValue(body)]

\* "\n".join(parts)
RECURSIVE Join(_)
Join(parts) ==
    IF parts = <<>> THEN <<>>
    ELSE IF Len(parts) = 1 THEN Head(parts)
    ELSE Head(parts) \o <<"\n">> \o Join(Tail(parts))

RECURSIVE Concat(_)
Concat(parts) ==
    IF parts = <<>> THEN <<>> ELSE Head(parts) \o Concat(Tail(parts))

----------------------------------------------------------------------------
(* Messages *)

Message(role, content, tool_calls, tool_call_id, name) ==
    [role |-> role, content |-> content, tool_calls |-> tool_calls,
     tool_call_id |-> tool_call_id, name |-> name]

SystemPrompt(c) ==
    IF c = "netflix" THEN <<"You are a helpful Netflix assistant.">>
    ELSE <<"SYSTEM_PROMPT">>

SystemMessage(c) == Message("system", Some(SystemPrompt(c)), <<>>, None, None)

UserMessage(text) == Message("user", Some(text), <<>>, None, None)

\* messages = [...] at the start of each program
InitialMessages(c) ==
    IF c = "mcp" THEN <<UserMessage(<<"q","u","e","r","y">>)>>
    ELSE <<SystemMessage(c)>>

----------------------------------------------------------------------------
(* What the LLM backend may return *)

ArgsEmpty == <<"{", "}">>
ArgsObject == <<"{", "\"n\"", ":", "5", "}">>
ArgsTruncated == <<"{", "\"n\"", ":">>
ArgStrings == {ArgsObject, ArgsTruncated}

\* json.loads(tool_call.function.arguments): the decoded object, or a raise
JsonLoads(s) ==
    IF s = ArgsEmpty THEN [ok |-> TRUE, value |-> <<>>]
    ELSE IF Len(s) = 5 /\ s[1] = "{" /\ s[3] = ":" /\ s[5] = "}"
    THEN [ok |-> TRUE, value |-> <<s[2], s[4]>>]
    ELSE [ok |-> FALSE, value |-> <<>>]

CallIds == <<"a", "b", "c", "d">>
CallNames == <<"get_top_movies", "add_to_favorites", "get_favorites",
               "search_movies">>

ToolCallRequest(i, args) ==
    [id |-> CallIds[i], name |-> CallNames[i], arguments |-> args]

\* the tool_calls fields of length n: distinct ids, any arguments
ToolCallSeqs(n) ==
    {[i \in 1..n |-> ToolCallRequest(i, f[i])] : f \in [1..n -> ArgStrings]}

AssistantMessage(content, tool_calls) ==
    Message("assistant", content, tool_calls, None, None)

FinalContents == {None, Some(<<"answer">>)}

PlainAssistantMessages == {AssistantMessage(c, <<>>) : c \in FinalContents}

ToolAssistantMessages(budget) ==
    UNION {{AssistantMessage(None, tc) : tc \in ToolCallSeqs(n)} :
              n \in 1..budget}

----------------------------------------------------------------------------
(* What a remote tool invocation may produce *)

TextBlock(t) == [type |-> "text", text |-> t]
ImageBlock == [type |-> "image", text |-> <<>>]
HasText(block) == block.type = "text"

ResultContents ==
    {<<TextBlock(<<"r1">>)>>,
     <<TextBlock(<<"r1">>), ImageBlock, TextBlock(<<"r2">>)>>}

NoOutcome == [kind |-> "none", content |-> <<>>, cause |-> <<>>]
Result(content) == [kind |-> "result", content |-> content, cause |-> <<>>]
\* the tool reported an error (isError in the protocol result)
ToolError == [kind |-> "tool_error", content |-> <<>>,
              cause |-> <<"Movie not found.">>]
\* network error, protocol error or timeout
CallException == [kind |-> "exception", content |-> <<>>,
                  cause |-> <<"timed out">>]
DecodeError == [kind |-> "decode_error", content |-> <<>>,
                cause |-> <<"JSONDecodeError">>]

Outcomes == {Result(c) : c \in ResultContents} \cup {ToolError, CallException}
Failures == {"tool_error", "exception"}


----------------------------------------------------------------------------
(* Pieces of the conversation loops *)

ReplClients == {"netflix", "puppy"}
Clients == ReplClients \cup {"mcp"}

\* run_repl of fastmcp_netflix: what the stripped line makes the loop do
NetflixCommand(line) ==
    IF line = <<>> THEN "continue"
    ELSE IF Lower(line) \in {<<"q","u","i","t">>, <<"e","x","i","t">>, <<"q">>}
    THEN "break"
    ELSE IF Lower(line) = <<"c","l","e","a","r">> THEN "clear"
    ELSE "chat"

\* run_repl of puppy_guide: every line goes to chat
PuppyCommand(line) == "chat"

Command(c, line) ==
    IF c = "netflix" THEN NetflixCommand(line) ELSE PuppyCommand(line)

\* variants of the bound test: off by one, inclusive, keeping the latest
\* message, sliding window
HistoryBoundPlusTwo(msgs, max) ==
    IF Len(msgs) > max + 2 THEN <<msgs[1]>> ELSE msgs

HistoryBoundAtLeast(msgs, max) ==
    IF Len(msgs) >= max + 1 THEN <<msgs[1]>> ELSE msgs

HistoryBoundKeepLast(msgs, max) ==
    IF Len(msgs) > max + 1 THEN <<Last(msgs)>> ELSE msgs

HistoryBoundWindow(msgs, max) ==
    IF Len(msgs) > max + 1
    THEN <<msgs[1]>> \o SubSeq(msgs, Len(msgs) - max + 1, Len(msgs))
    ELSE msgs

\* if len(messages) > MAX_HISTORY + 1: messages = [messages[0]]
HistoryBound(msgs, max) ==
    IF Len(msgs) > max + 1 THEN <<msgs[1]>> ELSE msgs

\* return assistant_message.content or ""
AnswerOf(msg) == IF msg.content = None THEN <<>> ELSE msg.content[1]

\* print(openai_response): the content, None printed as "None"
McpPrinted(msg) == IF msg.content = None THEN <<"None">> ELSE msg.content[1]

\* result_text = f"Error: {e}"
ErrorText(cause) == <<"Error: ">> \o cause

TextsOf(content) ==
    LET texts == SelectSeq(content, HasText)
    IN  [i \in 1..Len(texts) |-> texts[i].text]

\* "\n".join(block.text for block in result.content if hasattr(block, "text"))
NetflixResultText(content) == Join(TextsOf(content))

ReprBlock(block) ==
    IF HasText(block) THEN <<"TextContent(">> \o block.text \o <<")">>
    ELSE <<"ImageContent()">>

ReprContent(content) ==
    <<"[">> \o Concat([i \in 1..Len(content) |-> ReprBlock(content[i])])
            \o <<"]">>

\* result_text = str(result)
PuppyResultText(content) ==
    <<"CallToolResult(">> \o ReprContent(content) \o <<")">>

\* mcp_tool_content = str(result.content)
McpResultText(content) == ReprContent(content)

\* the message appended for one tool call
ToolMessage(tool_call, text) ==
    Message("tool", Some(text), <<>>, Some(tool_call.id), Some(tool_call.name))

\* mcp-client: no "name" key
McpToolMessage(tool_call, text) ==
    Message("tool", Some(text), <<>>, Some(tool_call.id), None)

\* variant: the calls taken in reverse
ToolCallAtReversed(calls, i) == calls[Len(calls) + 1 - i]

\* for tool_call in assistant_message.tool_calls: the i-th pass
ToolCallAt(calls, i) == calls[i]

\* variant: the loop left after its first pass
AfterToolCallBreak(i, n) == "AwaitingCompletion"

\* the for loop over tool_calls: after call i of n
AfterToolCall(i, n) ==
    IF i < n THEN "AwaitingToolResults" ELSE "AwaitingCompletion"

\* tool-call requests emitted since the latest user message
ToolCallsInTurn(msgs) ==
    LET users == {i \in 1..Len(msgs) : msgs[i].role = "user"}
        from == IF users = {} THEN 1
                ELSE CHOOSE i \in users : \A j \in users : j <= i
    IN  SumSeq([i \in 1..(Len(msgs) - from + 1) |->
                   Len(msgs[from + i - 1].tool_calls)])

\* the replies explored for the next completion
LLMReplies(msgs) ==
    PlainAssistantMessages
        \cup ToolAssistantMessages(MaxToolCallsPerTurn - ToolCallsInTurn(msgs))

UserLines ==
    {<<>>, <<" ">>, <<"q","u","i","t">>, <<" ","E","x","i","t">>,
     <<"c","l","e","a","r">>, <<"h","i">>}
QuestionLines == {<<"h","i">>}

NoResponse == AssistantMessage(None, <<>>)

----------------------------------------------------------------------------
(* Elicitation handlers *)

NoElicitResult == [action |-> "none", value |-> None]
ElicitResult(action) == [action |-> action, value |-> None]
\* response_type(value=...)
\* a variant that accepts without carrying the value
AcceptedNoValue(value) == [action |-> "accept", value |-> None]

Accepted(value) == [action |-> "accept", value |-> Some(value)]
\* an exception leaves the handler
Raised == [action |-> "raise", value |-> None]

\* a property of requestedSchema: its const, when it has one
ConstProperty(v) == Some(v)
PlainProperty == None

\* options: the const of every property that has one, in order
SchemaOptions(properties) ==
    LET withConst == SelectSeq(properties, LAMBDA p : p # None)
    IN  [i \in 1..Len(withConst) |-> withConst[i][1]]

ElicitationRequests ==
    {[response_type |-> "None", properties |-> <<>>],
     [response_type |-> "bool", properties |-> <<PlainProperty>>],
     [response_type |-> "int", properties |-> <<PlainProperty>>],
     [response_type |-> "enum",
      properties |-> <<ConstProperty(<<"labrador">>)>>],
     [response_type |-> "enum",
      properties |-> <<ConstProperty(<<"labrador">>),
                       ConstProperty(<<"poodle">>)>>]}

TerminalLines ==
    {<<>>, <<" ">>, <<"0">>, <<"1">>, <<"2">>, <<"3">>, <<"4">>,
     <<"-","1">>, <<" ","1"," ">>, <<"x">>, <<"y","e","s">>}

\* a variant that answers an empty line with cancel
NetflixElicitationHandlerCancels(req, line) ==
    IF req.response_type = "None"
    THEN [result |-> ElicitResult("accept"), read |-> 0]
    ELSE IF Strip(line) = <<>>
    THEN [result |-> ElicitResult("cancel"), read |-> 1]
    ELSE [result |-> Accepted(Strip(line)), read |-> 1]

\* fastmcp_netflix/client/handlers/elicitation.py
NetflixElicitationHandler(req, line) ==
    IF req.response_type = "None"
    THEN [result |-> ElicitResult("accept"), read |-> 0]
    ELSE IF Strip(line) = <<>>
    THEN [result |-> ElicitResult("decline"), read |-> 1]
    ELSE [result |-> Accepted(Strip(line)), read |-> 1]

\* a variant of the menu lookup that keeps the 1-based choice as a 0-based index
ChosenOptionZeroBased(options, choice) ==
    options[IF choice < Len(options) THEN choice + 1 ELSE choice]

\* options[choice - 1]: the menu numbers the options from 1
ChosenOption(options, choice) == options[choice]

\* puppy_guide/client/handlers/elicitation.py
PuppyElicitationHandler(req, line) ==
    LET options == SchemaOptions(req.properties)
        raw == Strip(line)
        parsed == ParseInt(raw)
        choice == parsed.value
    IN  IF ~parsed.ok
        THEN [result |-> ElicitResult("decline"), read |-> 1]
        ELSE IF choice < 1 \/ choice = Len(options) + 1
        THEN [result |-> ElicitResult("decline"), read |-> 1]
        ELSE IF req.response_type = "None"
        THEN [result |-> ElicitResult("accept"), read |-> 1]
        ELSE IF choice > Len(options)
        THEN [result |-> Raised, read |-> 1]
        ELSE [result |-> Accepted(ChosenOption(options, choice)), read |-> 1]

ElicitationHandler(c, req, line) ==
    IF c = "netflix" THEN NetflixElicitationHandler(req, line)
    ELSE PuppyElicitationHandler(req, line)

NoRequest == [response_type |-> "None", properties |-> <<>>]

----------------------------------------------------------------------------
(* get_tools_for_openai: MCP tool descriptors to OpenAI function tools *)

\* longest tool list explored
MaxTools == 3

Tool(name, description, inputSchema) ==
    [name |-> name, description |-> description, inputSchema |-> inputSchema]

\* descriptors a server may list; a tool may come without a description,
\* and its inputSchema is given by the names of its properties
ToolDescriptors ==
    {Tool("search_movies", Some(<<"Search the catalogue">>), <<"query", "limit">>),
     Tool("get_top_movies", Some(<<"Best rated movies">>), <<"n">>),
     Tool("get_favorites", None, <<>>),
     Tool("dog_to_human_age", Some(<<"Dog age in human years">>), <<"age">>)}

ToolLists == UNION {[1..n -> ToolDescriptors] : n \in 0..MaxTools}

\* a variant that builds the list back to front
GetToolsForOpenaiReversed(ts) ==
    [i \in 1..Len(ts) |->
        [type |-> "function",
         function |-> [name |-> ts[Len(ts) + 1 - i].name,
                       description |-> ts[Len(ts) + 1 - i].description,
                       parameters |-> ts[Len(ts) + 1 - i].inputSchema]]]

\* for tool in mcp_tools: openai_tools.append({...})
GetToolsForOpenai(ts) ==
    [i \in 1..Len(ts) |->
        [type |-> "function",
         function |-> [name |-> ts[i].name,
                       description |-> ts[i].description,
                       parameters |-> ts[i].inputSchema]]]

----------------------------------------------------------------------------
(* Notifications from the server and what their handlers show *)

\* a float is held as a whole number of 1/Scale
Scale == 2
\* largest progress or total explored, in units of 1/Scale
MaxProgress == 8

Floats == -2..MaxProgress

\* message.data: a dict (with or without "msg") or something else; repr is
\* what str() gives
DictData(msg, repr) == [mapping |-> TRUE, msg |-> msg, repr |-> repr]
OtherData(repr) == [mapping |-> FALSE, msg |-> None, repr |-> repr]
NoData == DictData(None, <<"{}">>)

LogData ==
    {DictData(Some(<<"cache miss">>), <<"{'msg': 'cache miss'}">>),
     NoData,
     OtherData(<<"cache miss">>)}

LogLevels ==
    {<<"d","e","b","u","g">>, <<"D","E","B","U","G">>, <<"i","n","f","o">>,
     <<"W","a","r","n","i","n","g">>, <<"w","a","r","n","i","n","g">>,
     <<"e","r","r","o","r">>, <<"E","R","R","O","R">>,
     <<"n","o","t","i","c","e">>, <<"c","r","i","t","i","c","a","l">>}

ProgressNotification(progress, total, message) ==
    [kind |-> "progress", progress |-> progress, total |-> total,
     message |-> message, level |-> <<>>, data |-> NoData]

LogMessage(level, data) ==
    [kind |-> "log", progress |-> 0, total |-> None, message |-> None,
     level |-> level, data |-> data]

NoNotification ==
    [kind |-> "none", progress |-> 0, total |-> None, message |-> None,
     level |-> <<>>, data |-> NoData]

ProgressNotifications ==
    {ProgressNotification(p, t, m) :
        p \in Floats,
        t \in {None} \cup {Some(x) : x \in Floats},
        m \in {None, Some(<<>>), Some(<<"Searching">>)}}

LogMessages == {LogMessage(l, d) : l \in LogLevels, d \in LogData}

Shown(kind, raised, number, percent, divided, text, level) ==
    [kind |-> kind, raised |-> raised, number |-> number, percent |-> percent,
     divided |-> divided, text |-> text, level |-> level]

NothingShown == Shown("none", FALSE, 0, FALSE, FALSE, <<>>, "")

\* a variant of the rounding: ties go up
RoundHalfUp(n, d) == (2 * n + d) \div (2 * d)

\* f"{x:.0f}" of x = n/d with d > 0: the nearest integer, ties to the even one
RoundHalfEven(n, d) ==
    LET q == n \div d
        r == n % d
    IN  IF 2 * r < d THEN q
        ELSE IF 2 * r > d THEN q + 1
        ELSE IF q % 2 = 0 THEN q ELSE q + 1

\* int(x): the fraction is dropped, towards zero
IntOf(v) == IF v >= 0 THEN v \div Scale ELSE -((-v) \div Scale)

\* percent_str; divided tells whether progress / total was evaluated
PercentStr(progress, total) ==
    IF total # None /\ total[1] > 0
    THEN [number |-> RoundHalfEven(100 * progress, total[1]),
          percent |-> TRUE, divided |-> TRUE]
    ELSE [number |-> IntOf(progress), percent |-> FALSE, divided |-> FALSE]

Truthy(message) == message # None /\ message[1] # <<>>

\* fastmcp_netflix/client/handlers/progress.py
NetflixProgressHandler(n) ==
    LET percent_str == PercentStr(n.progress, n.total)
        msg_part == IF Truthy(n.message) THEN <<" - ">> \o n.message[1]
                    ELSE <<>>
    IN  Shown("progress", FALSE, percent_str.number, percent_str.percent,
              percent_str.divided, msg_part, "")

\* puppy_guide/client/handlers/progress.py
PuppyProgressHandler(n) ==
    LET percent_str == PercentStr(n.progress, n.total)
        msg_part == IF Truthy(n.message) THEN n.message[1] ELSE <<>>
    IN  Shown("progress", FALSE, percent_str.number, percent_str.percent,
              percent_str.divided, <<" - ">> \o msg_part, "")

ProgressHandler(c, n) ==
    IF c = "netflix" THEN NetflixProgressHandler(n)
    ELSE PuppyProgressHandler(n)

\* level_map.get(level, logging.INFO)
LevelMap(level) ==
    CASE level = <<"d","e","b","u","g">> -> "DEBUG"
      [] level = <<"i","n","f","o">> -> "INFO"
      [] level = <<"w","a","r","n","i","n","g">> -> "WARNING"
      [] level = <<"e","r","r","o","r">> -> "ERROR"
      [] OTHER -> "INFO"

\* message.data.get("msg", "")
GetMsg(data) == IF data.msg = None THEN <<>> ELSE data.msg[1]

\* fastmcp_netflix/client/handlers/logging.py: .get on a payload that is
\* not a dict raises AttributeError
NetflixLogHandler(n) ==
    IF ~n.data.mapping
    THEN Shown("log", TRUE, 0, FALSE, FALSE, <<>>, "")
    ELSE Shown("log", FALSE, 0, FALSE, FALSE,
               <<"[SERVER] ">> \o GetMsg(n.data), LevelMap(Lower(n.level)))

\* puppy_guide/client/handlers/logging.py
PuppyLogHandler(n) ==
    LET msg == IF n.data.mapping THEN GetMsg(n.data) ELSE n.data.repr
    IN  Shown("log", FALSE, 0, FALSE, FALSE,
              <<"[Server Log] ">> \o msg, LevelMap(Lower(n.level)))

LogHandler(c, n) ==
    IF c = "netflix" THEN NetflixLogHandler(n) ELSE PuppyLogHandler(n)

----------------------------------------------------------------------------
(* The servers' tools: fastmcp_netflix/server/components/tools.py and     *)
(* puppy_guide/server/main.py                                              *)

\* most movies a title search returns in the model (the query has limit(5))
MaxMatches == 3
\* oldest dog explored (the tool accepts 0..30)
MaxAge == 2

Movie(id, title) == [id |-> id, title |-> title]
NoMovie == Movie(0, <<>>)

\* the movie table
Catalogue ==
    {Movie(1, <<"U","p">>), Movie(2, <<"I","t">>), Movie(3, <<"U","s">>)}

\* the answers of one title query: distinct movies, MaxMatches at most
MatchLists ==
    UNION {{r \in [1..n -> Catalogue] :
                \A i, j \in 1..n : i # j => r[i] # r[j]} : n \in 0..MaxMatches}

\* what ctx.elicit gives the tool: the action with the validated data, or
\* an exception (the client failed, or the content did not validate)
Elicitation(action, int, bool, text) ==
    [action |-> action, int |-> int, bool |-> bool, text |-> text]
NoElicitation == Elicitation("none", 0, FALSE, <<>>)
Declined == Elicitation("decline", 0, FALSE, <<>>)
Cancelled == Elicitation("cancel", 0, FALSE, <<>>)
ElicitFailed == Elicitation("error", 0, FALSE, <<>>)
AcceptedInt(n) == Elicitation("accept", n, FALSE, <<>>)
AcceptedBool(b) == Elicitation("accept", 0, b, <<>>)
AcceptedText(t) == Elicitation("accept", 0, FALSE, t)

\* what a tool invocation gives its caller
ToolOutcome(kind, movie, human_age, breed, favorites, cause) ==
    [kind |-> kind, movie |-> movie, human_age |-> human_age,
     breed |-> breed, favorites |-> favorites, cause |-> cause,
     name |-> None, count |-> 0]
NoToolOutcome == ToolOutcome("none", NoMovie, 0, <<>>, <<>>, "")
MovieFound(movie) == ToolOutcome("result", movie, 0, <<>>, <<>>, "")
\* a result that is a sentence about a movie, or the favorites list
Said(text, movie, favorites) ==
    ToolOutcome("result", movie, 0, <<>>, favorites, text)
\* raise ToolError(...)
ToolFailed(cause) == ToolOutcome("tool_error", NoMovie, 0, <<>>, <<>>, cause)
\* any other exception leaving the tool
ToolRaised(cause) == ToolOutcome("exception", NoMovie, 0, <<>>, <<>>, cause)

\* a variant of the menu lookup that counts the matches from 0
PickedMovieZeroBased(results, choice) ==
    results[IF choice < Len(results) THEN choice + 1 ELSE choice]

\* movie = results[choice - 1]
PickedMovie(results, choice) == results[choice]

\* a variant of the confirmation test that only looks at the action
ConfirmedByAction(confirm) == confirm.action = "accept"

\* not (confirm.action != "accept" or not confirm.data)
Confirmed(confirm) == confirm.action = "accept" /\ confirm.bool

\* search_movies, from the query results on
SearchMovies(results, e) ==
    IF results = <<>> THEN ToolFailed("No movies found")
    ELSE IF e.action = "error" THEN ToolRaised("elicit")
    ELSE IF Len(results) = 1
    THEN IF ~Confirmed(e) THEN ToolFailed("User cancelled the search")
         ELSE MovieFound(results[1])
    ELSE IF e.action = "accept"
    THEN IF 1 <= e.int /\ e.int <= Len(results)
         THEN MovieFound(PickedMovie(results, e.int))
         ELSE ToolFailed("Invalid choice")
    ELSE ToolFailed("User cancelled the search")

\* the response_type of the question search_movies asks, if it asks one
SearchMoviesAsks(results) ==
    IF results = <<>> THEN "None"
    ELSE IF Len(results) = 1 THEN "bool" ELSE "int"

\* add_to_favorites: the movie the arguments name, if any
FirstOf(movies) ==
    IF movies = {} THEN None
    ELSE Some(CHOOSE m \in movies : \A o \in movies : m.id <= o.id)

\* not title / not movie_id / if name
NoText(arg) == arg = None \/ arg[1] = <<>>
NoNumber(arg) == arg = None \/ arg[1] = 0

LookupMovie(title, movie_id) ==
    IF ~NoNumber(movie_id)
    THEN FirstOf({m \in Catalogue : m.id = movie_id[1]})
    ELSE FirstOf({m \in Catalogue : Lower(m.title) = Lower(title[1])})

Favorite(movie) == [id |-> movie.id, title |-> movie.title]

\* a variant of the duplicate test that never finds the movie
AlreadyFavoriteNever(favorites, movie) == FALSE

\* any(fav.get("id") == movie.id for fav in favorites)
AlreadyFavorite(favorites, movie) ==
    \E i \in 1..Len(favorites) : favorites[i].id = movie.id

\* await ctx.get_state("favorites") or []
OrEmpty(stored) == IF stored = None THEN <<>> ELSE stored[1]

\* the arguments explored for add_to_favorites
TitleArgs == {None, Some(<<>>), Some(<<"u","p">>), Some(<<"x">>)}
MovieIdArgs == {None, Some(1), Some(2), Some(9)}

BREED_MULTIPLIERS ==
    [breed \in {<<"l","a","b","r","a","d","o","r">>,
                <<"c","h","i","h","u","a","h","u","a">>,
                <<"g","e","r","m","a","n"," ","s","h","e","p","h","e","r","d">>,
                <<"b","u","l","l","d","o","g">>} |->
        CASE breed = <<"l","a","b","r","a","d","o","r">> -> 7
          [] breed = <<"c","h","i","h","u","a","h","u","a">> -> 5
          [] breed = <<"b","u","l","l","d","o","g">> -> 6
          [] OTHER -> 8]

\* a variant of the lookup that takes the breed as written
GetBreedMultiplierAsWritten(breed) ==
    IF breed \in DOMAIN BREED_MULTIPLIERS
    THEN Some(BREED_MULTIPLIERS[breed])
    ELSE None

\* BREED_MULTIPLIERS.get(breed.lower())
GetBreedMultiplier(breed) ==
    IF Lower(breed) \in DOMAIN BREED_MULTIPLIERS
    THEN Some(BREED_MULTIPLIERS[Lower(breed)])
    ELSE None

\* get_close_matches(word, BREED_MULTIPLIERS.keys(), n=1, cutoff=0.6) for
\* the words explored: "labrado" is 0.93 close to "labrador", "bulldogs"
\* 0.93 close to "bulldog"; "poodle" and "pug" are below 0.6 for every key
GetCloseMatches(word) ==
    CASE word = <<"l","a","b","r","a","d","o">> ->
             <<<<"l","a","b","r","a","d","o","r">>>>
      [] word = <<"b","u","l","l","d","o","g","s">> ->
             <<<<"b","u","l","l","d","o","g">>>>
      [] OTHER -> <<>>

\* the breeds explored
BreedArgs ==
    {<<"l","a","b","r","a","d","o","r">>, <<"L","a","b","r","a","d","o","r">>,
     <<"B","U","L","L","D","O","G">>, <<"c","h","i","h","u","a","h","u","a">>,
     <<"L","a","b","r","a","d","o">>, <<"b","u","l","l","d","o","g","s">>,
     <<"p","o","o","d","l","e">>, <<"p","u","g">>}

NameArgs == {None, Some(<<>>), Some(<<"Rex">>), Some(<<"Bo">>)}

\* a variant that looks at the argument only
NameUsedArgOnly(name, stored) == name

\* if name: set_state("dog_name", name) else: name = get_state("dog_name")
NameUsed(name, stored) == IF ~NoText(name) THEN name ELSE stored

\* the two return statements: the answer bears the name if there is one
NamedAnswer(o, name) ==
    IF o.kind = "result" /\ ~NoText(name) THEN [o EXCEPT !.name = name] ELSE o

\* a variant of the count that leaves the last entry out
GetFavoritesResultShort(favorites) ==
    [Said("favorites", NoMovie, favorites) EXCEPT
        !.count = IF favorites = <<>> THEN 0 ELSE Len(favorites) - 1]

\* return {"count": len(favorites), "favorites": favorites}
GetFavoritesResult(favorites) ==
    [Said("favorites", NoMovie, favorites) EXCEPT !.count = Len(favorites)]

\* a variant in which a declined question does not end the tool
ResolveBreedDeclineGoesOn(breed, e) ==
    LET multiplier == GetBreedMultiplier(breed)
        suggestions == GetCloseMatches(Lower(breed))
        resolved(b, m) == [ok |-> TRUE, breed |-> b, multiplier |-> m,
                           error |-> NoToolOutcome]
        failed(o) == [ok |-> FALSE, breed |-> breed, multiplier |-> None,
                      error |-> o]
    IN  IF multiplier # None THEN resolved(breed, multiplier)
        ELSE IF suggestions = <<>> THEN failed(ToolFailed("no similar breeds"))
        ELSE IF e.action = "error" THEN failed(ToolRaised("elicit"))
        ELSE IF e.action = "accept"
        THEN resolved(e.text, Some(BREED_MULTIPLIERS[e.text]))
        ELSE IF e.action = "cancel" THEN failed(ToolFailed("cancelled by user"))
        ELSE resolved(breed, None)

\* the multiplier and breed after the lookup and the question, or the error
\* that ends the tool there
ResolveBreed(breed, e) ==
    LET multiplier == GetBreedMultiplier(breed)
        suggestions == GetCloseMatches(Lower(breed))
        resolved(b, m) == [ok |-> TRUE, breed |-> b, multiplier |-> m,
                           error |-> NoToolOutcome]
        failed(o) == [ok |-> FALSE, breed |-> breed, multiplier |-> None,
                      error |-> o]
    IN  IF multiplier # None THEN resolved(breed, multiplier)
        ELSE IF suggestions = <<>> THEN failed(ToolFailed("no similar breeds"))
        ELSE IF e.action = "error" THEN failed(ToolRaised("elicit"))
        ELSE IF e.action = "accept"
        THEN IF e.text \in DOMAIN BREED_MULTIPLIERS
             THEN resolved(e.text, Some(BREED_MULTIPLIERS[e.text]))
             ELSE failed(ToolRaised("KeyError"))
        ELSE IF e.action = "decline" THEN failed(ToolFailed("User declined"))
        ELSE IF e.action = "cancel" THEN failed(ToolFailed("cancelled by user"))
        ELSE resolved(breed, None)

\* tip_result.text, or "" when ctx.sample raises (no sampling handler)
Tip(sampling) == IF sampling THEN "Health tip: keep walking" ELSE "Health tip: "

\* dog_to_human_age from the breed lookup on
DogToHumanAge(age, breed, e, sampling) ==
    LET r == ResolveBreed(breed, e)
    IN  IF ~r.ok THEN r.error
        ELSE IF r.multiplier = None THEN ToolRaised("TypeError")
        ELSE ToolOutcome("result", NoMovie, age * r.multiplier[1], r.breed,
                         <<>>, Tip(sampling))

\* whether dog_to_human_age asks its question
DogToHumanAgeAsks(breed) ==
    GetBreedMultiplier(breed) = None /\ GetCloseMatches(Lower(breed)) # <<>>

\* the session state: a key never set reads as None
Session(favorites, dog_name) == [favorites |-> favorites, dog_name |-> dog_name]
NoSession == Session(None, None)

\* a tool invocation: its arguments, what ctx.elicit will give it, where it
\* stands, the favorites list it read, and what it returned
Call(tool, title, movie_id, results, elicitation, age, breed, name,
     sampling) ==
    [tool |-> tool, title |-> title, movie_id |-> movie_id,
     results |-> results, elicitation |-> elicitation, age |-> age,
     breed |-> breed, name |-> name, sampling |-> sampling,
     pc |-> "pending", favorites |-> <<>>, outcome |-> NoToolOutcome,
     n |-> 0]

NoCall == Call("none", None, None, <<>>, NoElicitation, 0, <<>>, None, FALSE)

\* the invocations that may run at the same time for one session
Slots == {"first", "second"}

ElicitationsFor(response_type, options) ==
    IF response_type = "None" THEN {NoElicitation}
    ELSE {Declined, Cancelled, ElicitFailed} \cup
         (IF response_type = "bool" THEN {AcceptedBool(b) : b \in BOOLEAN}
          ELSE IF response_type = "int"
          THEN {AcceptedInt(n) : n \in 0..(MaxMatches + 1)}
          ELSE {AcceptedText(options[i]) : i \in 1..Len(options)})

AddToFavoritesCalls ==
    {Call("add_to_favorites", t, m, <<>>, NoElicitation, 0, <<>>, None, FALSE) :
        t \in TitleArgs, m \in MovieIdArgs}

GetFavoritesCalls ==
    {Call("get_favorites", None, None, <<>>, NoElicitation, 0, <<>>, None,
          FALSE)}

SearchMoviesCalls ==
    UNION {{Call("search_movies", None, None, r, e, 0, <<>>, None, FALSE) :
                e \in ElicitationsFor(SearchMoviesAsks(r), <<>>)} :
           r \in MatchLists}

DogToHumanAgeCalls ==
    UNION {{Call("dog_to_human_age", None, None, <<>>, e, a, b, n, s) :
                a \in 0..MaxAge, n \in NameArgs, s \in BOOLEAN,
                e \in ElicitationsFor(
                         IF DogToHumanAgeAsks(b) THEN "enum" ELSE "None",
                         GetCloseMatches(Lower(b)))} :
           b \in BreedArgs}

----------------------------------------------------------------------------
(* langchain_agent_with_mcp/agent.py: what the agent is invoked with *)

\* {"messages": [...user...]} or Command(resume={"decisions": [...]})
Inputs(kind, content, decisions) ==
    [kind |-> kind, content |-> content, decisions |-> decisions]
NoInputs == Inputs("none", <<>>, <<>>)
UserInputs(text) == Inputs("messages", text, <<>>)
Resume(decisions) == Inputs("resume", <<>>, decisions)

----------------------------------------------------------------------------
(* Initial states *)

InitElicitIdle ==
    /\ request = NoRequest
    /\ stdin = <<>>
    /\ elicit_result = NoElicitResult
    /\ consumed = 0

\* the tool list is not looked at
InitBridgeIdle ==
    /\ mcp_tools = <<>>
    /\ tools = None

\* no notification arrives
InitNotifyIdle ==
    /\ notification = NoNotification
    /\ shown = NothingShown

\* the server side is not looked at
InitServerIdle ==
    /\ session = NoSession
    /\ invocations = [i \in Slots |-> NoCall]

InitSignalIdle == cancelling = FALSE

InitOfferIdle == offered = None

InitAgentIdle ==
    /\ hitl_request = None
    /\ inputs = NoInputs
    /\ confirmations = 0

InitHandlersIdle ==
    /\ InitElicitIdle /\ InitBridgeIdle /\ InitNotifyIdle /\ InitServerIdle
    /\ InitSignalIdle
    /\ InitOfferIdle
    /\ InitAgentIdle

\* the state of a program after its set-up, with MAX_HISTORY read from S
InitLoop(cs, S) ==
    /\ client \in cs
    /\ MAX_HISTORY \in S
    /\ pc = IF client = "mcp" THEN "AwaitingCompletion" ELSE "Idle"
    /\ messages = InitialMessages(client)
    /\ response = NoResponse
    /\ idx = 0
    /\ outcome = NoOutcome
    /\ user_input = <<>>
    /\ answer = <<>>
    /\ last = "Start"
    /\ turn = 0

Init == InitLoop(Clients, 0..MaxHistorySetting) /\ InitHandlersIdle

----------------------------------------------------------------------------
(* run_repl: one pass of the REPL loop up to the first await of chat *)

ReadInputStep(line) ==
    /\ pc = "Idle"
    /\ client \in ReplClients
    /\ user_input' = Strip(line)
    /\ LET cmd == Command(client, Strip(line))
       IN  /\ messages' =
                 IF cmd = "clear" THEN <<messages[1]>>
                 ELSE IF cmd = "chat"
                 THEN Append(messages, UserMessage(Strip(line)))
                 ELSE messages
           /\ pc' = IF cmd = "break" THEN "Exited"
                    ELSE IF cmd = "chat" THEN "AwaitingCompletion"
                    ELSE "Idle"
           /\ last' = IF cmd = "break" THEN "Quit"
                      ELSE IF cmd = "clear" THEN "Clear"
                      ELSE IF cmd = "chat" THEN "UserTurn"
                      ELSE "Empty"
    /\ UNCHANGED <<client, MAX_HISTORY, response, idx, outcome, answer>>
    /\ UNCHANGED auxVars

ReadInput(line) == ReadInputStep(line) /\ UNCHANGED turn

\* the same step, with the turns counted (scenario of plain turns)
CountedTurn(line) ==
    /\ turn < MaxTurns
    /\ ReadInputStep(line)
    /\ turn' = turn + 1

\* except KeyboardInterrupt: print("Goodbye!"); break
\* a variant in which the interrupted read is taken up again
AfterInterruptResume == "InToolCall"

\* except KeyboardInterrupt: break (at the prompt); the interrupt leaves
\* asyncio.run (in a handler's input())
AfterInterrupt == "Exited"

Interrupt ==
    /\ pc = "Idle"
    /\ client \in ReplClients
    /\ pc' = AfterInterrupt
    /\ last' = "Interrupt"
    /\ UNCHANGED <<client, MAX_HISTORY, messages, response, idx, outcome,
                   user_input, answer, turn>>
    /\ UNCHANGED auxVars

\* after chat returned: print the answer, apply the history bound
BoundPolicy ==
    /\ pc = "Returned"
    /\ client \in ReplClients
    /\ messages' = HistoryBound(messages, MAX_HISTORY)
    /\ last' = IF messages' = messages THEN "Keep" ELSE "Reset"
    /\ pc' = "Idle"
    /\ UNCHANGED <<client, MAX_HISTORY, response, idx, outcome, user_input,
                   answer, turn>>
    /\ UNCHANGED auxVars

----------------------------------------------------------------------------
(* chat (fastmcp_netflix, puppy_guide) *)

\* the completion returns: append the message, return or start dispatching
CompletionStep(msg) ==
    /\ pc = "AwaitingCompletion"
    /\ client \in ReplClients
    /\ response' = msg
    /\ messages' = Append(messages, msg)
    /\ IF msg.tool_calls = <<>>
       THEN /\ answer' = AnswerOf(msg)
            /\ pc' = "Returned"
            /\ idx' = 0
            /\ last' = "FinalAnswer"
       ELSE /\ answer' = answer
            /\ pc' = "AwaitingToolResults"
            /\ idx' = 1
            /\ last' = "ToolCalls"
    /\ UNCHANGED <<client, MAX_HISTORY, outcome, user_input, turn>>

Completion(msg) == CompletionStep(msg) /\ UNCHANGED auxVars

\* one pass of the for loop over tool_calls; o is what call_tool does
Dispatch(o) ==
    /\ pc = "AwaitingToolResults"
    /\ client \in ReplClients
    /\ last' = "Dispatch"
    /\ LET tool_call == ToolCallAt(response.tool_calls, idx)
           tool_args == JsonLoads(tool_call.arguments)
           result_text ==
               IF o.kind = "result"
               THEN IF client = "netflix" THEN NetflixResultText(o.content)
                    ELSE PuppyResultText(o.content)
               ELSE ErrorText(o.cause)
       IN  IF ~tool_args.ok
           THEN \* json.loads raises outside the try: nothing catches it
                /\ outcome' = DecodeError
                /\ pc' = "Crashed"
                /\ UNCHANGED <<messages, idx>>
           ELSE /\ outcome' = o
                /\ messages' = Append(messages, ToolMessage(tool_call, result_text))
                /\ pc' = AfterToolCall(idx, Len(response.tool_calls))
                /\ idx' = idx + 1
    /\ UNCHANGED <<client, MAX_HISTORY, response, user_input, answer, turn>>
    /\ UNCHANGED auxVars

----------------------------------------------------------------------------
(* main of mcp-client/client.py *)

\* a completion returns: the while test, the append, the final print
McpCompletion(msg) ==
    /\ pc = "AwaitingCompletion"
    /\ client = "mcp"
    /\ response' = msg
    /\ IF msg.tool_calls = <<>>
       THEN /\ answer' = McpPrinted(msg)
            /\ pc' = "Done"
            /\ idx' = 0
            /\ messages' = messages
            /\ last' = "FinalAnswer"
       ELSE /\ answer' = answer
            /\ messages' = Append(messages, msg)
            /\ pc' = "AwaitingToolResults"
            /\ idx' = 1
            /\ last' = "ToolCalls"
    /\ UNCHANGED <<client, MAX_HISTORY, outcome, user_input, turn>>
    /\ UNCHANGED auxVars

\* one pass of the for loop: no try around json.loads or session.call_tool
McpDispatch(o) ==
    /\ pc = "AwaitingToolResults"
    /\ client = "mcp"
    /\ last' = "Dispatch"
    /\ LET tool_call == ToolCallAt(response.tool_calls, idx)
           tool_args == JsonLoads(tool_call.arguments)
           \* session.call_tool returns a tool-reported error as a result
           content == IF o.kind = "tool_error" THEN <<TextBlock(o.cause)>>
                      ELSE o.content
       IN  IF ~tool_args.ok
           THEN /\ outcome' = DecodeError
                /\ pc' = "Crashed"
                /\ UNCHANGED <<messages, idx>>
           ELSE IF o.kind = "exception"
           THEN /\ outcome' = o
                /\ pc' = "Crashed"
                /\ UNCHANGED <<messages, idx>>
           ELSE /\ outcome' = o
                /\ messages' = Append(messages,
                       McpToolMessage(tool_call, McpResultText(content)))
                /\ pc' = AfterToolCall(idx, Len(response.tool_calls))
                /\ idx' = idx + 1
    /\ UNCHANGED <<client, MAX_HISTORY, response, user_input, answer, turn>>
    /\ UNCHANGED auxVars

----------------------------------------------------------------------------
(* The three programs *)

Next ==
    \/ \E line \in UserLines : ReadInput(line)
    \/ Interrupt
    \/ \E msg \in LLMReplies(messages) : Completion(msg)
    \/ \E o \in Outcomes : Dispatch(o)
    \/ BoundPolicy
    \/ \E msg \in LLMReplies(messages) : McpCompletion(msg)
    \/ \E o \in Outcomes : McpDispatch(o)

Spec == Init /\ [][Next]_vars

----------------------------------------------------------------------------
(* The REPLs driven through plain turns only: the LLM never asks for a tool *)

InitNoTools == InitLoop(ReplClients, 0..DefaultMaxHistory) /\ InitHandlersIdle

NextNoTools ==
    \/ \E line \in QuestionLines : CountedTurn(line)
    \/ \E msg \in PlainAssistantMessages : Completion(msg)
    \/ BoundPolicy

SpecNoTools == InitNoTools /\ [][NextNoTools]_vars

----------------------------------------------------------------------------
(* An elicitation handler called once with a request and a terminal line *)

InitElicit ==
    /\ InitLoop(ReplClients, {DefaultMaxHistory})
    /\ request \in ElicitationRequests
    /\ stdin \in TerminalLines
    /\ elicit_result = NoElicitResult
    /\ consumed = 0
    /\ InitBridgeIdle
    /\ InitNotifyIdle
    /\ InitServerIdle
    /\ InitSignalIdle
    /\ InitOfferIdle
    /\ InitAgentIdle

Elicit ==
    /\ elicit_result = NoElicitResult
    /\ LET r == ElicitationHandler(client, request, stdin)
       IN  /\ elicit_result' = r.result
           /\ consumed' = r.read
    /\ UNCHANGED <<request, stdin, turn>>
    /\ UNCHANGED <<loopVars, bridgeVars, notifyVars, serverVars, signalVars, offerVars, agentVars>>

NextElicit == Elicit

SpecElicit == InitElicit /\ [][NextElicit]_vars

----------------------------------------------------------------------------
(* The tool list is fetched and converted once, at set-up *)

InitTools ==
    /\ InitLoop(Clients, {DefaultMaxHistory})
    /\ InitElicitIdle
    /\ InitNotifyIdle
    /\ InitServerIdle
    /\ InitSignalIdle
    /\ InitOfferIdle
    /\ InitAgentIdle
    /\ mcp_tools \in ToolLists
    /\ tools = None

ListAndConvertTools ==
    /\ tools = None
    /\ tools' = Some(GetToolsForOpenai(mcp_tools))
    /\ UNCHANGED <<mcp_tools, turn>>
    /\ UNCHANGED <<loopVars, elicitVars, notifyVars, serverVars, signalVars, offerVars, agentVars>>

NextTools == ListAndConvertTools

SpecTools == InitTools /\ [][NextTools]_vars

----------------------------------------------------------------------------
(* A notification handler called once with a notification *)

InitNotify ==
    /\ InitLoop(ReplClients, {DefaultMaxHistory})
    /\ InitElicitIdle
    /\ InitBridgeIdle
    /\ InitServerIdle
    /\ InitSignalIdle
    /\ InitOfferIdle
    /\ InitAgentIdle
    /\ notification \in ProgressNotifications \cup LogMessages
    /\ shown = NothingShown

OnProgress ==
    /\ notification.kind = "progress"
    /\ shown = NothingShown
    /\ shown' = ProgressHandler(client, notification)
    /\ UNCHANGED <<notification, turn>>
    /\ UNCHANGED <<loopVars, elicitVars, bridgeVars, serverVars, signalVars, offerVars, agentVars>>

OnLog ==
    /\ notification.kind = "log"
    /\ shown = NothingShown
    /\ shown' = LogHandler(client, notification)
    /\ UNCHANGED <<notification, turn>>
    /\ UNCHANGED <<loopVars, elicitVars, bridgeVars, serverVars, signalVars, offerVars, agentVars>>

NextNotify == OnProgress \/ OnLog

SpecNotify == InitNotify /\ [][NextNotify]_vars

----------------------------------------------------------------------------
(* The server runs tool invocations for one session *)

CallsOf(c) ==
    IF c = "netflix"
    THEN AddToFavoritesCalls \cup GetFavoritesCalls \cup SearchMoviesCalls
    ELSE DogToHumanAgeCalls

InitServer ==
    /\ InitLoop(ReplClients, {DefaultMaxHistory})
    /\ InitElicitIdle
    /\ InitBridgeIdle
    /\ InitNotifyIdle
    /\ InitSignalIdle
    /\ InitOfferIdle
    /\ InitAgentIdle
    /\ session \in
          IF client = "netflix"
          THEN {NoSession, Session(Some(<<Favorite(Movie(1, <<"U","p">>))>>), None)}
          ELSE {NoSession, Session(None, Some(<<"Bo">>))}
    /\ \E first \in CallsOf(client) :
       \E second \in (IF client = "netflix" THEN AddToFavoritesCalls ELSE {})
                         \cup {NoCall} :
           invocations = [i \in Slots |-> IF i = "first" THEN first ELSE second]

ServerFrame ==
    UNCHANGED <<loopVars, turn, elicitVars, bridgeVars, notifyVars, signalVars, offerVars, agentVars>>

Finish(i, o) ==
    invocations' = [invocations EXCEPT ![i].pc = "done", ![i].outcome = o]

\* add_to_favorites up to the return of ctx.get_state
AddToFavoritesRead(i) ==
    LET c == invocations[i]
    IN  /\ c.tool = "add_to_favorites"
        /\ c.pc = "pending"
        /\ IF NoText(c.title) /\ NoNumber(c.movie_id)
           THEN Finish(i, ToolFailed("Must provide either 'title' or 'movie_id'"))
           ELSE IF LookupMovie(c.title, c.movie_id) = None
           THEN Finish(i, ToolFailed("Movie not found"))
           ELSE invocations' =
                    [invocations EXCEPT ![i].pc = "read",
                         ![i].favorites = OrEmpty(session.favorites)]
        /\ UNCHANGED session
        /\ ServerFrame

\* add_to_favorites from there: the duplicate test, append, ctx.set_state
AddToFavoritesWrite(i) ==
    LET c == invocations[i]
        movie == LookupMovie(c.title, c.movie_id)[1]
        favorites == Append(c.favorites, Favorite(movie))
    IN  /\ c.tool = "add_to_favorites"
        /\ c.pc = "read"
        /\ IF AlreadyFavorite(c.favorites, movie)
           THEN /\ Finish(i, Said("is already in your favorites", movie,
                                  c.favorites))
                /\ UNCHANGED session
           ELSE /\ Finish(i, Said("Added to favorites", movie, favorites))
                /\ session' = [session EXCEPT !.favorites = Some(favorites)]
        /\ ServerFrame

GetFavorites(i) ==
    LET c == invocations[i]
    IN  /\ c.tool = "get_favorites"
        /\ c.pc = "pending"
        /\ Finish(i, GetFavoritesResult(OrEmpty(session.favorites)))
        /\ UNCHANGED session
        /\ ServerFrame

SearchMoviesCall(i) ==
    LET c == invocations[i]
    IN  /\ c.tool = "search_movies"
        /\ c.pc = "pending"
        /\ Finish(i, SearchMovies(c.results, c.elicitation))
        /\ UNCHANGED session
        /\ ServerFrame

\* dog_to_human_age: the name is stored first, whatever follows
DogToHumanAgeCall(i) ==
    LET c == invocations[i]
    IN  /\ c.tool = "dog_to_human_age"
        /\ c.pc = "pending"
        /\ session' = IF ~NoText(c.name)
                      THEN [session EXCEPT !.dog_name = c.name]
                      ELSE session
        /\ Finish(i, NamedAnswer(DogToHumanAge(c.age, c.breed, c.elicitation,
                                                c.sampling),
                                  NameUsed(c.name, session.dog_name)))
        /\ ServerFrame

NextServer ==
    \E i \in Slots :
        \/ AddToFavoritesRead(i)
        \/ AddToFavoritesWrite(i)
        \/ GetFavorites(i)
        \/ SearchMoviesCall(i)
        \/ DogToHumanAgeCall(i)

SpecServer == InitServer /\ [][NextServer]_vars

----------------------------------------------------------------------------
(* One session, its tool calls made one after the other *)

\* the number of calls of a session explored
MaxCalls == 4

\* the calls a client makes of the tools that keep session state
SessionCalls(c) ==
    IF c = "netflix" THEN AddToFavoritesCalls \cup GetFavoritesCalls
    ELSE DogToHumanAgeCalls

InitSession ==
    /\ InitLoop(ReplClients, {DefaultMaxHistory})
    /\ InitHandlersIdle

\* the next call of the session arrives once the one before has returned
StartCall(c) ==
    /\ invocations["first"] = NoCall \/ invocations["first"].pc = "done"
    /\ turn < MaxCalls
    /\ turn' = turn + 1
    /\ invocations' = [invocations EXCEPT !["first"] = c]
    /\ UNCHANGED <<loopVars, session>>
    /\ UNCHANGED <<elicitVars, bridgeVars, notifyVars, signalVars, offerVars, agentVars>>

NextSession ==
    \/ \E c \in SessionCalls(client) : StartCall(c)
    \/ AddToFavoritesRead("first")
    \/ AddToFavoritesWrite("first")
    \/ GetFavorites("first")
    \/ DogToHumanAgeCall("first")

SpecSession == InitSession /\ [][NextSession]_vars

----------------------------------------------------------------------------
(* One tool invocation, step by step, with the progress it reports *)

\* largest n asked of get_top_movies
MaxTop == 4

\* total_steps = 4
TotalSteps == 4

\* a variant of the query that forgets limit(n)
LimitNone(table, n) == table

\* .order_by(desc("total")).limit(n).all()
Limit(table, n) ==
    SubSeq(table, 1, IF n < Len(table) THEN n ELSE Len(table))

\* await ctx.report_progress(progress, total, message)
ReportProgress(progress, total) ==
    notification' = ProgressNotification(progress * Scale,
                                         Some(total * Scale), None)

\* the rows ranked by the metric, and the n asked for
GetTopMoviesCalls ==
    {[Call("get_top_movies", None, None, table, NoElicitation, 0, <<>>, None,
           FALSE) EXCEPT !.n = n] :
        table \in MatchLists, n \in 1..MaxTop}

ReportingCalls(c) ==
    IF c = "netflix" THEN GetTopMoviesCalls ELSE DogToHumanAgeCalls

InitProgress ==
    /\ InitLoop(ReplClients, {DefaultMaxHistory})
    /\ InitElicitIdle
    /\ InitBridgeIdle
    /\ InitNotifyIdle
    /\ InitSignalIdle
    /\ InitOfferIdle
    /\ InitAgentIdle
    /\ session = NoSession
    /\ \E c \in ReportingCalls(client) :
           invocations = [i \in Slots |-> IF i = "first" THEN c ELSE NoCall]

ProgressFrame ==
    UNCHANGED <<loopVars, turn, elicitVars, bridgeVars, shown, signalVars, offerVars, agentVars>>

At(i, position) == invocations' = [invocations EXCEPT ![i].pc = position]

\* get_top_movies: the first report, then the query
GetTopMoviesStart(i) ==
    LET c == invocations[i]
    IN  /\ c.tool = "get_top_movies"
        /\ c.pc = "pending"
        /\ ReportProgress(0, c.n)
        /\ invocations' = [invocations EXCEPT ![i].pc = "rows",
                               ![i].favorites = <<>>,
                               ![i].results = Limit(c.results, c.n)]
        /\ UNCHANGED session
        /\ ProgressFrame

\* one pass of for i, r in enumerate(all_results, start=1)
GetTopMoviesRow(i) ==
    LET c == invocations[i]
        k == Len(c.favorites) + 1
    IN  /\ c.tool = "get_top_movies"
        /\ c.pc = "rows"
        /\ k <= Len(c.results)
        /\ ReportProgress(k, c.n)
        /\ invocations' = [invocations EXCEPT
                               ![i].favorites = Append(c.favorites,
                                                       Favorite(c.results[k]))]
        /\ UNCHANGED session
        /\ ProgressFrame

\* return results
GetTopMoviesReturn(i) ==
    LET c == invocations[i]
    IN  /\ c.tool = "get_top_movies"
        /\ c.pc = "rows"
        /\ Len(c.favorites) = Len(c.results)
        /\ Finish(i, Said("top movies", NoMovie, c.favorites))
        /\ UNCHANGED <<session, notification>>
        /\ ProgressFrame

\* dog_to_human_age: the name, then the first report
DogStart(i) ==
    LET c == invocations[i]
    IN  /\ c.tool = "dog_to_human_age"
        /\ c.pc = "pending"
        /\ session' = IF ~NoText(c.name)
                      THEN [session EXCEPT !.dog_name = c.name]
                      ELSE session
        /\ invocations' =
              [invocations EXCEPT ![i].pc = "lookup",
                   ![i].name = NameUsed(c.name, session.dog_name)]
        /\ ReportProgress(0, TotalSteps)
        /\ ProgressFrame

\* the breed lookup and the question: an error ends the tool, else report 1
DogResolve(i) ==
    LET c == invocations[i]
        r == ResolveBreed(c.breed, c.elicitation)
    IN  /\ c.tool = "dog_to_human_age"
        /\ c.pc = "lookup"
        /\ IF ~r.ok
           THEN Finish(i, r.error) /\ UNCHANGED notification
           ELSE At(i, "resolved") /\ ReportProgress(1, TotalSteps)
        /\ UNCHANGED session
        /\ ProgressFrame

\* human_age = age * multiplier, then report 2
DogAge(i) ==
    LET c == invocations[i]
        r == ResolveBreed(c.breed, c.elicitation)
    IN  /\ c.tool = "dog_to_human_age"
        /\ c.pc = "resolved"
        /\ IF r.multiplier = None
           THEN Finish(i, ToolRaised("TypeError")) /\ UNCHANGED notification
           ELSE At(i, "tip") /\ ReportProgress(2, TotalSteps)
        /\ UNCHANGED session
        /\ ProgressFrame

\* the tip (ctx.sample, or "" when it raises), the last report, the return
DogDone(i) ==
    LET c == invocations[i]
    IN  /\ c.tool = "dog_to_human_age"
        /\ c.pc = "tip"
        /\ ReportProgress(TotalSteps, TotalSteps)
        /\ Finish(i, NamedAnswer(DogToHumanAge(c.age, c.breed, c.elicitation,
                                                c.sampling), c.name))
        /\ UNCHANGED session
        /\ ProgressFrame

NextProgress ==
    \/ GetTopMoviesStart("first")
    \/ GetTopMoviesRow("first")
    \/ GetTopMoviesReturn("first")
    \/ DogStart("first")
    \/ DogResolve("first")
    \/ DogAge("first")
    \/ DogDone("first")

SpecProgress == InitProgress /\ [][NextProgress]_vars

----------------------------------------------------------------------------
(* A REPL with its server: a tool call in flight may notify and elicit *)

\* MAX_HISTORY of the runs explored here
DemoHistorySetting == 1

\* the words pydantic reads as true and as false
TrueWords ==
    {<<"1">>, <<"y">>, <<"t">>, <<"o","n">>, <<"y","e","s">>,
     <<"t","r","u","e">>}
FalseWords ==
    {<<"0">>, <<"n">>, <<"f">>, <<"n","o">>, <<"o","f","f">>,
     <<"f","a","l","s","e">>}

\* what ctx.elicit makes of the client's response: the content of an accept
\* is validated against the response type, a failure raises in the tool
ServerView(req, result) ==
    IF result.action = "raise" THEN ElicitFailed
    ELSE IF result.action = "decline" THEN Declined
    ELSE IF result.action = "cancel" THEN Cancelled
    ELSE IF req.response_type = "None" \/ result.value = None
    THEN IF req.response_type = "None" /\ result.value = None
         THEN Elicitation("accept", 0, FALSE, <<>>)
         ELSE ElicitFailed
    ELSE LET text == result.value[1]
         IN  IF req.response_type = "bool"
             THEN IF Lower(text) \in TrueWords THEN AcceptedBool(TRUE)
                  ELSE IF Lower(text) \in FalseWords THEN AcceptedBool(FALSE)
                  ELSE ElicitFailed
             ELSE IF req.response_type = "int"
             THEN IF ParseInt(text).ok THEN AcceptedInt(ParseInt(text).value)
                  ELSE ElicitFailed
             ELSE IF \E i \in 1..Len(SchemaOptions(req.properties)) :
                        SchemaOptions(req.properties)[i] = text
             THEN AcceptedText(text)
             ELSE ElicitFailed

\* the tool invocations a client's LLM triggers here
DemoCalls(c) ==
    IF c = "netflix"
    THEN {Call("search_movies", None, None, r, NoElicitation, 0, <<>>, None,
               FALSE) :
            r \in {<<>>, <<Movie(1, <<"U","p">>)>>,
                   <<Movie(1, <<"U","p">>), Movie(3, <<"U","s">>)>>}}
    ELSE {Call("dog_to_human_age", None, None, <<>>, NoElicitation, 1, b, None,
               TRUE) :
            b \in {<<"l","a","b","r","a","d","o","r">>,
                   <<"L","a","b","r","a","d","o">>, <<"p","u","g">>}}

\* the question a pending invocation asks: its response type and options
QuestionOf(c) ==
    IF c.tool = "search_movies"
    THEN [response_type |-> SearchMoviesAsks(c.results),
          properties |-> <<PlainProperty>>]
    ELSE IF c.tool = "dog_to_human_age" /\ DogToHumanAgeAsks(c.breed)
    THEN [response_type |-> "enum",
          properties |-> [i \in 1..Len(GetCloseMatches(Lower(c.breed))) |->
                             ConstProperty(GetCloseMatches(Lower(c.breed))[i])]]
    ELSE NoRequest

Asks(c) == QuestionOf(c).response_type # "None"

\* what the tool function gives, by tool
RunTool(c) ==
    IF c.tool = "search_movies" THEN SearchMovies(c.results, c.elicitation)
    ELSE DogToHumanAge(c.age, c.breed, c.elicitation, c.sampling)

\* what client.call_tool gives the loop for a tool outcome: the result, or
\* ToolError raised for an error result
AsCallOutcome(o) ==
    IF o.kind = "result"
    THEN Result(<<TextBlock(IF o.movie # NoMovie THEN o.movie.title
                            ELSE <<o.cause>>)>>)
    ELSE [kind |-> "tool_error", content |-> <<>>, cause |-> <<o.cause>>]

\* the notifications a tool call in flight sends in these runs
DemoNotifications ==
    {ProgressNotification(2, Some(8), Some(<<"Searching">>)),
     LogMessage(<<"i","n","f","o">>, OtherData(<<"cache miss">>))}

\* a variant in which the handler keeps what it showed in History
HistoryWithNotification(msgs, out) ==
    Append(msgs, Message("tool", Some(out.text), <<>>, None, None))

\* the handlers print or log and return None
HistoryAfterHandler(msgs, out) == msgs

InitDemo ==
    /\ InitLoop(ReplClients, {DemoHistorySetting})
    /\ InitHandlersIdle

\* await mcp_client.call_tool(tool_name, tool_args): the request leaves; a
\* main task asked to cancel ends at this await with CancelledError, which
\* neither except Exception nor except KeyboardInterrupt catches
CallTool(c) ==
    /\ pc = "AwaitingToolResults"
    /\ client \in ReplClients
    /\ LET tool_call == ToolCallAt(response.tool_calls, idx)
           tool_args == JsonLoads(tool_call.arguments)
       IN  IF ~tool_args.ok
           THEN /\ outcome' = DecodeError
                /\ pc' = "Crashed"
                /\ last' = "Dispatch"
                /\ UNCHANGED <<invocations, elicitVars>>
           ELSE IF cancelling
           THEN /\ outcome' = NoOutcome
                /\ pc' = "Exited"
                /\ last' = "Cancelled"
                /\ UNCHANGED <<invocations, elicitVars>>
           ELSE /\ outcome' = NoOutcome
                /\ pc' = "InToolCall"
                /\ last' = "CallTool"
                /\ invocations' = [invocations EXCEPT !["first"] = c]
                /\ request' = NoRequest
                /\ stdin' = <<>>
                /\ elicit_result' = NoElicitResult
                /\ consumed' = 0
    /\ UNCHANGED <<client, MAX_HISTORY, messages, response, idx, user_input,
                   answer, turn, session>>
    /\ UNCHANGED <<bridgeVars, notifyVars, signalVars, offerVars, agentVars>>

\* a progress or log notification arrives and its handler runs (not while
\* input() of the elicitation handler holds the event loop)
Notify(n) ==
    /\ pc = "InToolCall"
    /\ notification' = n
    /\ shown' = IF n.kind = "progress" THEN ProgressHandler(client, n)
                ELSE LogHandler(client, n)
    /\ messages' = HistoryAfterHandler(messages, shown')
    /\ UNCHANGED <<client, MAX_HISTORY, pc, response, idx, outcome,
                   user_input, answer, last, turn>>
    /\ UNCHANGED <<elicitVars, bridgeVars, serverVars, signalVars, offerVars, agentVars>>

\* the tool reaches ctx.elicit: the client's handler is called
ServerElicits ==
    /\ pc = "InToolCall"
    /\ invocations["first"].pc = "pending"
    /\ Asks(invocations["first"])
    /\ request = NoRequest
    /\ request' = QuestionOf(invocations["first"])
    /\ pc' = "AwaitingElicitation"
    /\ UNCHANGED <<client, MAX_HISTORY, messages, response, idx, outcome,
                   user_input, answer, last, turn>>
    /\ UNCHANGED <<stdin, elicit_result, consumed>>
    /\ UNCHANGED <<bridgeVars, notifyVars, serverVars, signalVars, offerVars, agentVars>>

\* the handler runs on the line typed and its response reaches the tool; a
\* main task asked to cancel ends when the event loop runs again
AnswerElicitation(line) ==
    /\ pc = "AwaitingElicitation"
    /\ LET r == ElicitationHandler(client, request, line)
       IN  /\ stdin' = line
           /\ elicit_result' = r.result
           /\ consumed' = r.read
           /\ invocations' =
                 [invocations EXCEPT
                     !["first"].elicitation = ServerView(request, r.result)]
    /\ pc' = IF cancelling THEN "Exited" ELSE "InToolCall"
    /\ last' = IF cancelling THEN "Cancelled" ELSE last
    /\ UNCHANGED <<client, MAX_HISTORY, messages, response, idx, outcome,
                   user_input, answer, turn, request, session>>
    /\ UNCHANGED <<bridgeVars, notifyVars, signalVars, offerVars, agentVars>>

\* Ctrl-C while input() blocks, under asyncio.run of Python 3.11 and later:
\* the first SIGINT asks the main task to cancel and raises nothing, input()
\* goes on reading (a second one raises KeyboardInterrupt, as in Interrupt
\* and InterruptElicitation)
DeferredInterrupt ==
    /\ pc \in {"Idle", "AwaitingElicitation"}
    /\ client \in ReplClients
    /\ ~cancelling
    /\ cancelling' = TRUE
    /\ last' = "Interrupt"
    /\ UNCHANGED <<client, MAX_HISTORY, pc, messages, response, idx, outcome,
                   user_input, answer, turn>>
    /\ UNCHANGED <<elicitVars, bridgeVars, notifyVars, serverVars, offerVars, agentVars>>

\* KeyboardInterrupt raised in the handler's input(): nothing catches it
InterruptElicitation ==
    /\ pc = "AwaitingElicitation"
    /\ pc' = AfterInterrupt
    /\ last' = "Interrupt"
    /\ UNCHANGED <<client, MAX_HISTORY, messages, response, idx, outcome,
                   user_input, answer, turn>>
    /\ UNCHANGED auxVars

\* call_tool returns or raises: the rest of the pass of the for loop
ToolReturns ==
    /\ pc = "InToolCall"
    /\ Asks(invocations["first"]) => request # NoRequest
    /\ LET tool_call == ToolCallAt(response.tool_calls, idx)
           o == AsCallOutcome(RunTool(invocations["first"]))
           result_text ==
               IF o.kind = "result"
               THEN IF client = "netflix" THEN NetflixResultText(o.content)
                    ELSE PuppyResultText(o.content)
               ELSE ErrorText(o.cause)
       IN  /\ outcome' = o
           /\ messages' = Append(messages, ToolMessage(tool_call, result_text))
           /\ pc' = AfterToolCall(idx, Len(response.tool_calls))
           /\ idx' = idx + 1
    /\ last' = "Dispatch"
    /\ Finish("first", RunTool(invocations["first"]))
    /\ UNCHANGED <<client, MAX_HISTORY, response, user_input, answer, turn,
                   session>>
    /\ UNCHANGED <<elicitVars, bridgeVars, notifyVars, signalVars, offerVars, agentVars>>

NextDemo ==
    \/ \E line \in UserLines : ReadInput(line)
    \/ Interrupt
    \/ \E msg \in LLMReplies(messages) : Completion(msg)
    \/ BoundPolicy
    \/ \E c \in DemoCalls(client) : CallTool(c)
    \/ \E n \in DemoNotifications : Notify(n)
    \/ ServerElicits
    \/ \E line \in TerminalLines : AnswerElicitation(line)
    \/ InterruptElicitation
    \/ DeferredInterrupt
    \/ ToolReturns

SpecDemo == InitDemo /\ [][NextDemo]_vars

\* the awaits of chat return and the user answers a question asked
SpecDemoFair ==
    /\ SpecDemo
    /\ WF_vars(\E msg \in LLMReplies(messages) : Completion(msg))
    /\ WF_vars(BoundPolicy)
    /\ WF_vars(\E c \in DemoCalls(client) : CallTool(c))
    /\ WF_vars(ServerElicits)
    /\ WF_vars(\E line \in TerminalLines : AnswerElicitation(line))
    /\ WF_vars(ToolReturns)

----------------------------------------------------------------------------
(* The Netflix REPL from its connection on: the tool list it offers *)

\* what the server would list, now or later in the session
SessionToolLists ==
    {<<>>,
     <<Tool("get_favorites", None, <<>>)>>,
     <<Tool("get_top_movies", Some(<<"Best rated movies">>), <<"n">>),
       Tool("get_favorites", None, <<>>)>>}

\* a variant that fetches the list again for each completion
ToolsArgumentRefetched(fetched, listed) == Some(GetToolsForOpenai(listed))

\* chat(user_input, openai_client, tools, messages) ... tools=tools
ToolsArgument(fetched, listed) == fetched

InitConnected ==
    /\ client = "netflix"
    /\ MAX_HISTORY = DemoHistorySetting + 2
    /\ pc = "Connecting"
    /\ messages = InitialMessages(client)
    /\ response = NoResponse
    /\ idx = 0
    /\ outcome = NoOutcome
    /\ user_input = <<>>
    /\ answer = <<>>
    /\ last = "Start"
    /\ turn = 0
    /\ InitElicitIdle
    /\ InitNotifyIdle
    /\ InitServerIdle
    /\ InitSignalIdle
    /\ InitOfferIdle
    /\ InitAgentIdle
    /\ mcp_tools \in SessionToolLists
    /\ tools = None

\* async with mcp_client: tools = await get_tools_for_openai(mcp_client)
Connect ==
    /\ pc = "Connecting"
    /\ tools' = Some(GetToolsForOpenai(mcp_tools))
    /\ pc' = "Idle"
    /\ last' = "Connect"
    /\ UNCHANGED <<client, MAX_HISTORY, messages, response, idx, outcome,
                   user_input, answer, turn, mcp_tools>>
    /\ UNCHANGED <<elicitVars, notifyVars, serverVars, signalVars, offerVars, agentVars>>

\* the server comes to list other tools while the session lasts
ServerToolsChange(ts) ==
    /\ pc # "Connecting"
    /\ ts # mcp_tools
    /\ mcp_tools' = ts
    /\ UNCHANGED <<loopVars, turn, tools>>
    /\ UNCHANGED <<elicitVars, notifyVars, serverVars, signalVars, offerVars, agentVars>>

\* openai_client.chat.completions.create(..., tools=tools, ...) and its return
CompletionOffering(msg) ==
    /\ CompletionStep(msg)
    /\ offered' = ToolsArgument(tools, mcp_tools)
    /\ UNCHANGED <<elicitVars, bridgeVars, notifyVars, serverVars, signalVars,
                   agentVars>>

NextConnected ==
    \/ Connect
    \/ \E ts \in SessionToolLists : ServerToolsChange(ts)
    \/ \E line \in UserLines : ReadInput(line)
    \/ Interrupt
    \/ \E msg \in LLMReplies(messages) : CompletionOffering(msg)
    \/ \E o \in Outcomes : Dispatch(o)
    \/ BoundPolicy

SpecConnected == InitConnected /\ [][NextConnected]_vars

----------------------------------------------------------------------------
(* The loops under fair scheduling *)

\* the three loops with every await of a turn returning: a completion asked
\* for is given, a dispatch begun ends, chat's caller goes on
InitTurns == InitLoop(Clients, {DemoHistorySetting}) /\ InitHandlersIdle

SpecTurnsFair ==
    /\ InitTurns
    /\ [][Next]_vars
    /\ WF_vars(\E msg \in LLMReplies(messages) : Completion(msg))
    /\ WF_vars(\E o \in Outcomes : Dispatch(o))
    /\ WF_vars(BoundPolicy)
    /\ WF_vars(\E msg \in LLMReplies(messages) : McpCompletion(msg))
    /\ WF_vars(\E o \in Outcomes : McpDispatch(o))

----------------------------------------------------------------------------
(* langchain_agent_with_mcp/agent.py: the agent behind human approval *)

MaxRequests == 2
MaxInvocations == 4

\* interrupt_on of HumanInTheLoopMiddleware: the tools that need approval
InterruptOn == {"get_air_quality", "get_temperature"}

\* the action requests one interrupt may carry
ActionRequests ==
    UNION {[1..n -> InterruptOn] : n \in 1..MaxRequests}

\* what is typed at "Press Enter to approve... "
ApprovalLines == {<<>>, <<"n","o">>}

\* the final messages the agent may end a run with
AgentAnswers == {<<"o","k">>, <<>>}

\* a variant approving the first request only
ApproveFirstOnly(action_requests) == <<"approve">>

\* return [{"type": "approve"}] * len(hitl_request["action_requests"])
ApproveToolCalls(action_requests) ==
    [i \in 1..Len(action_requests) |-> "approve"]

\* user_input.lower() in {"exit", "quit"}
AgentQuits(text) ==
    Lower(text) \in {<<"e","x","i","t">>, <<"q","u","i","t">>}

InitAgent ==
    /\ client = "langchain"
    /\ MAX_HISTORY = DefaultMaxHistory
    /\ pc = "Idle"
    /\ messages = <<>>
    /\ response = NoResponse
    /\ idx = 0
    /\ outcome = NoOutcome
    /\ user_input = <<>>
    /\ answer = <<>>
    /\ last = "Start"
    /\ turn = 0
    /\ InitHandlersIdle

AgentFrame ==
    UNCHANGED <<client, MAX_HISTORY, messages, outcome, elicitVars,
                bridgeVars, notifyVars, serverVars, signalVars, offerVars>>

\* user_input = input("You: ").strip(); empty lines are skipped, exit and
\* quit end the loop, anything else becomes the inputs of a new run
AgentReadInput(line) ==
    /\ pc = "Idle"
    /\ client = "langchain"
    /\ turn < MaxInvocations
    /\ user_input' = Strip(line)
    /\ pc' = IF NoText(Some(Strip(line))) THEN "Idle"
             ELSE IF AgentQuits(Strip(line)) THEN "Exited"
             ELSE "Invoking"
    /\ last' = IF NoText(Some(Strip(line))) THEN "Empty"
               ELSE IF AgentQuits(Strip(line)) THEN "Quit"
               ELSE "UserTurn"
    /\ inputs' = IF pc' = "Invoking" THEN UserInputs(Strip(line)) ELSE inputs
    /\ UNCHANGED <<response, idx, answer, turn, hitl_request, confirmations>>
    /\ AgentFrame

\* except (EOFError, KeyboardInterrupt): print("\nGoodbye!"); break
AgentInterrupt ==
    /\ pc = "Idle"
    /\ client = "langchain"
    /\ pc' = "Exited"
    /\ last' = "Interrupt"
    /\ UNCHANGED <<response, idx, user_input, answer, turn, agentVars>>
    /\ AgentFrame

\* await agent.ainvoke(inputs, config=config) stopping at an interrupt;
\* state = agent.get_state(config); pending_interrupts is not empty:
\* _approve_tool_calls(pending_interrupts[0].value) begins
AgentInterrupts(action_requests) ==
    /\ pc = "Invoking"
    /\ turn < MaxInvocations
    /\ hitl_request' = Some(action_requests)
    /\ pc' = "Approving"
    /\ idx' = 1
    /\ confirmations' = 0
    /\ turn' = turn + 1
    /\ last' = "Pending"
    /\ UNCHANGED <<response, user_input, answer, inputs>>
    /\ AgentFrame

\* the run ends with a last message and no interrupt pending:
\* answer = state.values["messages"][-1].content; print; break
AgentEnds(text) ==
    /\ pc = "Invoking"
    /\ hitl_request' = None
    /\ response' = AssistantMessage(Some(text), <<>>)
    /\ answer' = text
    /\ pc' = "Idle"
    /\ last' = "AgentAnswer"
    /\ turn' = IF turn < MaxInvocations THEN turn + 1 ELSE turn
    /\ UNCHANGED <<idx, user_input, inputs, confirmations>>
    /\ AgentFrame

\* for tool_call in hitl_request["action_requests"]:
\*     print(...); input("Press Enter to approve... ")
ApproveRead(line) ==
    /\ pc = "Approving"
    /\ idx <= Len(hitl_request[1])
    /\ idx' = idx + 1
    /\ confirmations' = confirmations + 1
    /\ last' = "Confirm"
    /\ UNCHANGED <<pc, response, user_input, answer, turn, hitl_request,
                   inputs>>
    /\ AgentFrame

\* the read is ended by Ctrl-D or Ctrl-C: nothing around it catches
\* EOFError or KeyboardInterrupt, the program ends
ApproveReadFails ==
    /\ pc = "Approving"
    /\ idx <= Len(hitl_request[1])
    /\ pc' = "Crashed"
    /\ last' = "Interrupt"
    /\ UNCHANGED <<response, idx, user_input, answer, turn, agentVars>>
    /\ AgentFrame

\* _approve_tool_calls returns;
\* inputs = Command(resume={"decisions": approved_decisions})
ApproveReturn ==
    /\ pc = "Approving"
    /\ idx = Len(hitl_request[1]) + 1
    /\ inputs' = Resume(ApproveToolCalls(hitl_request[1]))
    /\ pc' = "Invoking"
    /\ last' = "Resume"
    /\ UNCHANGED <<response, idx, user_input, answer, turn, hitl_request,
                   confirmations>>
    /\ AgentFrame

NextAgent ==
    \/ \E line \in UserLines : AgentReadInput(line)
    \/ AgentInterrupt
    \/ \E rs \in ActionRequests : AgentInterrupts(rs)
    \/ \E text \in AgentAnswers : AgentEnds(text)
    \/ \E line \in ApprovalLines : ApproveRead(line)
    \/ ApproveReadFails
    \/ ApproveReturn

SpecAgent == InitAgent /\ [][NextAgent]_vars

----------------------------------------------------------------------------
(* Properties of the conversation loops *)

StartsWithError(text) == text # <<>> /\ text[1] = "Error: "

IsErrorResult(msg) ==
    msg.role = "tool" /\ msg.content # None /\ StartsWithError(msg.content[1])

RequestingAssistants(msgs) ==
    {p \in 1..Len(msgs) :
        msgs[p].role = "assistant" /\ msgs[p].tool_calls # <<>>}

\* the N messages after position p answer the N requests of msgs[p], no more
Answered(msgs, p) ==
    LET calls == msgs[p].tool_calls
        n == Len(calls)
    IN  /\ p + n <= Len(msgs)
        /\ \A i \in 1..n :
              /\ msgs[p + i].role = "tool"
              /\ msgs[p + i].tool_call_id = Some(calls[i].id)
        /\ p + n + 1 <= Len(msgs) => msgs[p + n + 1].role # "tool"

\* C1: whenever a completion is being requested, every assistant message of
\* History that carries N >= 1 tool-call requests is followed by exactly N
\* tool-result messages, one per request: no tool call is unanswered.
C1_NoUnansweredToolCall ==
    pc = "AwaitingCompletion" =>
        \A p \in RequestingAssistants(messages) : Answered(messages, p)

C1_Witness ==
    /\ pc = "AwaitingCompletion"
    /\ last = "Dispatch"
    /\ Len(response.tool_calls) = 2
    /\ Answered(messages, Len(messages) - 2)

\* C2: in every state the tool-result messages that follow an assistant
\* message stand directly after it in the order of its tool-call requests:
\* the i-th message after it is a tool message whose tool_call_id is the id
\* of the i-th request.
C2_ResultsInRequestOrder ==
    \A p \in RequestingAssistants(messages) :
        \A i \in 1..Len(messages[p].tool_calls) :
            p + i <= Len(messages) =>
                /\ messages[p + i].role = "tool"
                /\ messages[p + i].tool_call_id
                       = Some(messages[p].tool_calls[i].id)

\* requests a, b; a succeeds and b fails
C2_Witness ==
    \E p \in RequestingAssistants(messages) :
        /\ Len(messages[p].tool_calls) = 2
        /\ p + 2 <= Len(messages)
        /\ messages[p].tool_calls[1].id = "a"
        /\ messages[p].tool_calls[2].id = "b"
        /\ messages[p + 1].tool_call_id = Some("a")
        /\ messages[p + 1].content
               \in {Some(NetflixResultText(c)) : c \in ResultContents}
        /\ messages[p + 2].tool_call_id = Some("b")
        /\ IsErrorResult(messages[p + 2])

\* C3 (as claimed, for every loop): a dispatch whose remote invocation fails
\* appends a tool-result message for that call with an "Error: " body and the
\* loop goes on.
C3_FailureBecomesErrorResult ==
    [][(pc = "AwaitingToolResults" /\ last' = "Dispatch"
            /\ outcome'.kind \in Failures)
        => /\ pc' \in {"AwaitingToolResults", "AwaitingCompletion"}
           /\ Len(messages') = Len(messages) + 1
           /\ IsErrorResult(Last(messages'))
           /\ Last(messages').tool_call_id
                  = Some(response.tool_calls[idx].id)]_vars

\* C4 (as claimed): a dispatch of a request whose arguments cannot be decoded
\* appends a tool-result message with an "Error: " body for that call and the
\* turn continues.
C4_DecodeFailureBecomesErrorResult ==
    [][(pc = "AwaitingToolResults"
            /\ ~JsonLoads(response.tool_calls[idx].arguments).ok)
        => /\ pc' \in {"AwaitingToolResults", "AwaitingCompletion"}
           /\ Len(messages') = Len(messages) + 1
           /\ IsErrorResult(Last(messages'))
           /\ Last(messages').tool_call_id
                  = Some(response.tool_calls[idx].id)]_vars

\* C5: whenever a REPL waits in Idle for the next user input, History holds
\* at most MAX_HISTORY + 1 messages.
C5_IdleWithinBound ==
    (pc = "Idle" /\ client \in ReplClients) =>
        Len(messages) <= MAX_HISTORY + 1

\* Idle exactly at the bound, after a turn with a tool-call round
C5_Witness ==
    /\ pc = "Idle"
    /\ last = "Keep"
    /\ Len(messages) = MAX_HISTORY + 1
    /\ \E i \in 1..Len(messages) : messages[i].role = "tool"

\* C6: the step that ends a completed turn resets History to the single
\* original system message if and only if len(History) > MAX_HISTORY + 1,
\* and otherwise keeps History as it is (exactly MAX_HISTORY + 1 is kept).
C6_ResetIffOverBound ==
    [][pc = "Returned"
        => /\ pc' = "Idle"
           /\ IF Len(messages) > MAX_HISTORY + 1
              THEN messages' = <<SystemMessage(client)>>
              ELSE messages' = messages]_vars

C6_Witness ==
    /\ pc = "Idle"
    /\ last = "Reset"
    /\ MAX_HISTORY > 0
    /\ messages = <<SystemMessage(client)>>

\* the first turn k with 2k + 1 > max + 1
FirstResetTurn(max) ==
    CHOOSE k \in 1..(max + 1) :
        /\ 2 * k + 1 > max + 1
        /\ \A j \in 1..(k - 1) : 2 * j + 1 <= max + 1

\* C7: with plain turns only, nothing is reset before turn
\* k = FirstResetTurn(MAX_HISTORY), turn k ends with 2k + 1 messages and a
\* reset to the system message; for MAX_HISTORY = 10, k = 6 and History has
\* length 1 when the 7th user message is appended (length 2 after it).
C7_FirstResetTurn ==
    LET k == FirstResetTurn(MAX_HISTORY)
    IN  /\ (turn < k /\ pc \in {"Idle", "Returned"}) =>
              /\ Len(messages) = 2 * turn + 1
              /\ last # "Reset"
        /\ (turn = k /\ pc = "Returned") => Len(messages) = 2 * k + 1
        /\ (turn = k /\ pc = "Idle") =>
              /\ last = "Reset"
              /\ messages = <<SystemMessage(client)>>
        /\ MAX_HISTORY = DefaultMaxHistory => k = 6
        /\ (MAX_HISTORY = DefaultMaxHistory /\ turn = 7
                /\ pc = "AwaitingCompletion") =>
              messages = <<SystemMessage(client), UserMessage(user_input)>>

C7_Witness ==
    /\ MAX_HISTORY = DefaultMaxHistory
    /\ turn = 7
    /\ pc = "AwaitingCompletion"
    /\ Len(messages) = 2

\* C8 (as claimed, for every REPL): the line "clear" read in Idle leaves
\* History equal to the system message alone and the loop in Idle.
C8_ClearResetsHistory ==
    [][(pc = "Idle" /\ last' # "Interrupt"
            /\ user_input' = <<"c","l","e","a","r">>)
        => /\ messages' = <<SystemMessage(client)>>
           /\ pc' = "Idle"]_vars

\* C9 (as claimed, for every REPL): the lines "quit" and "exit" read in Idle
\* end the loop, with History unchanged and no completion requested.
C9_QuitExitTerminate ==
    [][(pc = "Idle" /\ last' # "Interrupt"
            /\ Lower(user_input') \in {<<"q","u","i","t">>, <<"e","x","i","t">>})
        => /\ pc' = "Exited"
           /\ messages' = messages]_vars

\* C10 (as claimed, for both handlers): a request that expects no data is
\* answered accept without a line being read.
C10_NoDataAcceptsWithoutInput ==
    (elicit_result # NoElicitResult /\ request.response_type = "None") =>
        /\ elicit_result.action = "accept"
        /\ consumed = 0

----------------------------------------------------------------------------
(* Elicitation handlers: menu choices, empty lines, coercion, values *)

Returned == elicit_result # NoElicitResult

\* the options of a request in enumeration order, read off its schema
OptionsOf(req) ==
    LET consts == SelectSeq(req.properties, LAMBDA p : Len(p) = 1)
    IN  [i \in 1..Len(consts) |-> Head(consts[i])]

TypedChoice == ParseInt(Strip(stdin))

\* C11 (as claimed): in the menu handler with K options every integer
\* outside 1..K, the abandon entry K+1 included, is answered decline, and the
\* handler does not raise.
C11_OutOfRangeDeclines ==
    (/\ client = "puppy"
     /\ Returned
     /\ TypedChoice.ok
     /\ TypedChoice.value \notin 1..Len(OptionsOf(request)))
        => elicit_result.action = "decline"

\* C12: in the menu handler a line that is not an integer is answered
\* decline, and an integer i in 1..K is answered accept with the i-th option
\* as its value; with options labrador, poodle: "1" accepts labrador, "3"
\* and "x" decline.
C12_MenuChoice ==
    (client = "puppy" /\ Returned) =>
        LET options == OptionsOf(request)
        IN  /\ ~TypedChoice.ok => elicit_result = ElicitResult("decline")
            /\ (/\ TypedChoice.ok
                /\ TypedChoice.value \in 1..Len(options)
                /\ request.response_type # "None")
                   => /\ elicit_result.action = "accept"
                      /\ elicit_result.value = Some(options[TypedChoice.value])
            /\ options = <<<<"labrador">>, <<"poodle">>>> =>
                  /\ stdin = <<"1">> =>
                        elicit_result.value = Some(<<"labrador">>)
                  /\ stdin \in {<<"3">>, <<"x">>} =>
                        elicit_result.action = "decline"

C12_Witness ==
    /\ client = "puppy"
    /\ OptionsOf(request) = <<<<"labrador">>, <<"poodle">>>>
    /\ stdin = <<"2">>
    /\ consumed = 1
    /\ elicit_result = [action |-> "accept", value |-> Some(<<"poodle">>)]

\* C13: in both handlers, when data is expected, an empty or whitespace-only
\* line is answered decline with no value.
C13_BlankLineDeclines ==
    (/\ Returned
     /\ request.response_type # "None"
     /\ \A i \in 1..Len(stdin) : stdin[i] \in Whitespace)
        => /\ elicit_result.action = "decline"
           /\ elicit_result.value = None

C13_Witness ==
    /\ client = "netflix"
    /\ request.response_type = "int"
    /\ stdin = <<" ">>
    /\ consumed = 1
    /\ elicit_result.action = "decline"

\* the words pydantic reads as a boolean, lower-cased
BoolWords ==
    {<<"0">>, <<"1">>, <<"y">>, <<"n">>, <<"t">>, <<"f">>,
     <<"o","n">>, <<"n","o">>, <<"o","f","f">>, <<"y","e","s">>,
     <<"t","r","u","e">>, <<"f","a","l","s","e">>}

\* whether a stripped line can be read as a value of the expected shape
Coercible(response_type, text) ==
    IF response_type = "int" THEN ParseInt(text).ok
    ELSE IF response_type = "bool" THEN Lower(text) \in BoolWords
    ELSE TRUE

\* C14 (as claimed): in the free-input handler, a non-empty line that cannot
\* be coerced to the expected boolean or integer is answered decline, never
\* accept with the uncoerced text.
C14_UncoercibleDeclines ==
    (/\ client = "netflix"
     /\ Returned
     /\ request.response_type \in {"bool", "int"}
     /\ Strip(stdin) # <<>>
     /\ ~Coercible(request.response_type, Strip(stdin)))
        => elicit_result.action = "decline"

\* C15: a response returned by either handler carries a value exactly when
\* its action is accept and the request expected data.
C15_ValueIffAcceptWithData ==
    (Returned /\ elicit_result.action \in {"accept", "decline", "cancel"}) =>
        (elicit_result.value # None
            <=> (/\ elicit_result.action = "accept"
                 /\ request.response_type # "None"))

C15_Witness ==
    /\ client = "netflix"
    /\ request.response_type = "bool"
    /\ stdin = <<"y","e","s">>
    /\ elicit_result = [action |-> "accept", value |-> Some(<<"y","e","s">>)]

----------------------------------------------------------------------------
(* Conversation loops: tool-result text, assistant messages *)

\* the text of the text-bearing items of a content sequence, in order, a
\* newline between consecutive texts
RECURSIVE NewlineSeparatedText(_)
NewlineSeparatedText(content) ==
    IF content = <<>> THEN <<>>
    ELSE LET rest == NewlineSeparatedText(Tail(content))
             first == Head(content)
         IN  IF first.type # "text" THEN rest
             ELSE IF \A i \in 1..Len(Tail(content)) : Tail(content)[i].type # "text"
             THEN first.text
             ELSE first.text \o <<"\n">> \o rest

\* C16 (as claimed, for every loop): the tool-result message of a successful
\* invocation holds the texts of the result's text items, in order and
\* separated by newlines, and nothing of the other items.
C16_ResultTextIsJoinedTextItems ==
    [][(/\ pc = "AwaitingToolResults"
        /\ last' = "Dispatch"
        /\ outcome'.kind = "result"
        /\ Len(messages') = Len(messages) + 1)
        => Last(messages').content
               = Some(NewlineSeparatedText(outcome'.content))]_vars

\* C17 (as claimed, for every loop): the assistant message a completion
\* returns is appended to History as it is; when it requests no tool call the
\* turn ends there and the answer is its content, the empty text for null.
C17_AssistantAppendedThenAnswer ==
    [][(pc = "AwaitingCompletion" /\ last' \in {"FinalAnswer", "ToolCalls"})
        => /\ messages' = Append(messages, response')
           /\ response'.tool_calls = <<>> =>
                 /\ pc' \in {"Returned", "Done"}
                 /\ answer' = IF response'.content = None THEN <<>>
                              ELSE response'.content[1]]_vars

----------------------------------------------------------------------------
(* Tool descriptors, log messages, progress *)

\* C18: the converted list has the length and order of the descriptor list,
\* its i-th element is the function tool made of the i-th descriptor's name,
\* description and inputSchema, and the conversion changes neither the
\* descriptors nor the conversation state.
C18_ToolsMappedInOrder ==
    [][tools' # tools =>
        /\ Len(tools') = 1
        /\ Len(tools'[1]) = Len(mcp_tools)
        /\ \A i \in 1..Len(mcp_tools) :
              /\ tools'[1][i].type = "function"
              /\ tools'[1][i].function.name = mcp_tools[i].name
              /\ tools'[1][i].function.description = mcp_tools[i].description
              /\ tools'[1][i].function.parameters = mcp_tools[i].inputSchema
        /\ mcp_tools' = mcp_tools
        /\ UNCHANGED loopVars]_vars

C18_Witness ==
    /\ Len(mcp_tools) = 3
    /\ mcp_tools[1].name = "get_favorites"
    /\ mcp_tools[3].name = "search_movies"
    /\ tools # None
    /\ tools[1][1].function.name = "get_favorites"
    /\ tools[1][3].function.parameters = <<"query", "limit">>

\* the host logging level a level name stands for, whatever its case
HostLevel(level) ==
    LET known == {<<<<"d","e","b","u","g">>, "DEBUG">>,
                  <<<<"i","n","f","o">>, "INFO">>,
                  <<<<"w","a","r","n","i","n","g">>, "WARNING">>,
                  <<<<"e","r","r","o","r">>, "ERROR">>}
        hits == {k \in known : k[1] = Lower(level)}
    IN  IF hits = {} THEN "INFO" ELSE (CHOOSE k \in hits : TRUE)[2]

\* C19 (as claimed, for both handlers): a log message is logged at the host
\* level matching its level name (any case), at info for any other name,
\* and the handler raises for no message, whatever its data payload is.
C19_LogLevelMappedNeverRaises ==
    shown.kind = "log" =>
        /\ ~shown.raised
        /\ shown.level = HostLevel(notification.level)

Abs(x) == IF x < 0 THEN -x ELSE x

\* C20: with a total present and > 0 the handlers show
\* round(current / total * 100) and a percent sign; with total absent, zero
\* or negative they show current as an integer count and divide by nothing.
C20_PercentOrRawCount ==
    shown.kind = "progress" =>
        LET p == notification.progress
            total == notification.total
        IN  IF total # None /\ total[1] > 0
            THEN LET t == total[1]
                     off == Abs(100 * p - shown.number * t)
                 IN  /\ shown.percent
                     /\ 2 * off <= t
                     /\ 2 * off = t => shown.number % 2 = 0
            ELSE /\ ~shown.percent
                 /\ ~shown.divided
                 /\ ~shown.raised
                 /\ Abs(shown.number * Scale) <= Abs(p)
                 /\ Abs(p) < Abs(shown.number * Scale) + Scale
                 /\ shown.number * p >= 0

C20_Witness ==
    /\ client = "puppy"
    /\ notification.progress = 3
    /\ notification.total = Some(8)
    /\ shown.kind = "progress"
    /\ shown.number = 38
    /\ shown.percent

----------------------------------------------------------------------------
(* History over the steps of a REPL *)

\* C23: in both REPLs every step keeps History or appends at its end, except
\* the bound reset and the clear command, which leave its first message
\* alone; the first message is always the original system message.
C23_HistoryGrowsOrTruncates ==
    [][(client \in ReplClients) =>
        (/\ \/ /\ Len(messages') >= Len(messages)
               /\ SubSeq(messages', 1, Len(messages)) = messages
            \/ /\ last' \in {"Reset", "Clear"}
               /\ messages' = <<messages[1]>>
         /\ Head(messages') = SystemMessage(client))]_vars

C23_Witness ==
    /\ client = "netflix"
    /\ last = "Clear"
    /\ MAX_HISTORY = 4
    /\ messages = <<SystemMessage(client)>>
    /\ answer = <<"answer">>

----------------------------------------------------------------------------
(* Server tools: session state, favorites, breeds, title search *)

BothAdded ==
    /\ \A i \in Slots :
          /\ invocations[i].tool = "add_to_favorites"
          /\ invocations[i].pc = "done"
          /\ invocations[i].outcome.kind = "result"
    /\ invocations["first"].outcome.movie
           # invocations["second"].outcome.movie

\* C25 (as claimed): once two add_to_favorites invocations of one session
\* that add two distinct existing movies have both returned, both movies are
\* in the session's favorites, however their steps interleaved.
C25_NoLostFavorite ==
    BothAdded =>
        \A i \in Slots :
            \E k \in 1..Len(OrEmpty(session.favorites)) :
                OrEmpty(session.favorites)[k].id
                    = invocations[i].outcome.movie.id

\* the ids of a favorites list
FavoriteIds(favorites) == {favorites[k].id : k \in 1..Len(favorites)}

\* C26: the session state changes only by an explicit set: a step of
\* get_favorites, of an add_to_favorites that fails, or of an
\* add_to_favorites whose movie is in the list it read leaves favorites as
\* it was, and dog_to_human_age without a name leaves dog_name as it was.
C26_SessionChangedOnlyBySet ==
    [][\A i \in Slots :
        LET c == invocations[i]
            d == invocations'[i]
        IN  (c # d) =>
              /\ c.tool = "get_favorites" => session' = session
              /\ (c.tool = "add_to_favorites" /\ d.outcome.kind = "tool_error")
                    => session' = session
              /\ (/\ c.tool = "add_to_favorites"
                  /\ d.outcome.kind = "result"
                  /\ d.outcome.movie.id \in FavoriteIds(c.favorites))
                    => session' = session
              /\ c.tool = "add_to_favorites" /\ d.pc = "read"
                    => session' = session
              /\ (c.tool = "dog_to_human_age" /\ (c.name = None \/ c.name = Some(<<>>)))
                    => session'.dog_name = session.dog_name]_vars

C26_Witness ==
    /\ invocations["first"].tool = "add_to_favorites"
    /\ invocations["first"].pc = "done"
    /\ invocations["first"].movie_id = Some(1)
    /\ invocations["first"].outcome.kind = "result"
    /\ invocations["second"] = NoCall
    /\ session = Session(Some(<<Favorite(Movie(1, <<"U","p">>))>>), None)

\* the multiplier table as (breed, multiplier) pairs
BreedTable ==
    {<<<<"l","a","b","r","a","d","o","r">>, 7>>,
     <<<<"c","h","i","h","u","a","h","u","a">>, 5>>,
     <<<<"g","e","r","m","a","n"," ","s","h","e","p","h","e","r","d">>, 8>>,
     <<<<"b","u","l","l","d","o","g">>, 6>>}

Listed(breed) == \E row \in BreedTable : row[1] = Lower(breed)
MultiplierOf(breed) == (CHOOSE row \in BreedTable : row[1] = Lower(breed))[2]

DogCallsDone ==
    {i \in Slots : /\ invocations[i].tool = "dog_to_human_age"
                   /\ invocations[i].pc = "done"}

\* C28: dog_to_human_age with a breed of the table, in any case, succeeds
\* with age times that breed's multiplier, also without a sampling handler;
\* with a breed that is not in the table and has no close match it fails
\* with a tool error and no age.
C28_KnownBreedAgeUnknownBreedError ==
    \A i \in DogCallsDone :
        LET c == invocations[i]
        IN  /\ Listed(c.breed) =>
                /\ c.outcome.kind = "result"
                /\ c.outcome.human_age = c.age * MultiplierOf(c.breed)
            /\ (~Listed(c.breed) /\ GetCloseMatches(Lower(c.breed)) = <<>>) =>
                /\ c.outcome.kind = "tool_error"
                /\ c.outcome.human_age = 0

C28_Witness ==
    LET c == invocations["first"]
    IN  /\ c.tool = "dog_to_human_age"
        /\ c.breed = <<"B","U","L","L","D","O","G">>
        /\ c.age = 2
        /\ ~c.sampling
        /\ c.outcome.kind = "result"
        /\ c.outcome.human_age = 12

\* C29: when the breed is unknown and has a close match, an accepted
\* suggestion continues with that breed and its multiplier, a declined or
\* cancelled question fails with a tool error and no age, and no path
\* multiplies the age by an undefined multiplier.
C29_SuggestionAcceptedOrError ==
    \A i \in DogCallsDone :
        LET c == invocations[i]
            e == c.elicitation
        IN  /\ c.outcome.cause # "TypeError"
            /\ (~Listed(c.breed) /\ GetCloseMatches(Lower(c.breed)) # <<>>) =>
                /\ e.action = "accept" =>
                      /\ c.outcome.kind = "result"
                      /\ c.outcome.breed = e.text
                      /\ c.outcome.human_age = c.age * MultiplierOf(e.text)
                /\ e.action \in {"decline", "cancel"} =>
                      /\ c.outcome.kind = "tool_error"
                      /\ c.outcome.human_age = 0

C29_Witness ==
    LET c == invocations["first"]
    IN  /\ c.tool = "dog_to_human_age"
        /\ c.breed = <<"L","a","b","r","a","d","o">>
        /\ c.age = 1
        /\ c.elicitation.action = "accept"
        /\ c.outcome.breed = <<"l","a","b","r","a","d","o","r">>
        /\ c.outcome.human_age = 7

\* C30: search_movies with several matches returns a movie only for an
\* accepted integer choice in 1..len(results), and then results[choice-1];
\* an accepted choice outside that range, a decline and a cancel give a tool
\* error. With one match it returns the movie only for an accepted true.
C30_SearchResultOnlyWhenChosen ==
    \A i \in Slots :
        LET c == invocations[i]
            n == Len(c.results)
            e == c.elicitation
        IN  (c.tool = "search_movies" /\ c.pc = "done") =>
              /\ n >= 2 =>
                    /\ c.outcome.kind = "result" <=>
                           (e.action = "accept" /\ e.int \in 1..n)
                    /\ c.outcome.kind = "result" =>
                           c.outcome.movie = c.results[e.int]
                    /\ (\/ e.action \in {"decline", "cancel"}
                        \/ (e.action = "accept" /\ e.int \notin 1..n))
                           => c.outcome.kind = "tool_error"
              /\ n = 1 =>
                    /\ c.outcome.kind = "result" <=>
                           (e.action = "accept" /\ e.bool)
                    /\ c.outcome.kind = "result" =>
                           c.outcome.movie = c.results[1]

C30_Witness ==
    LET c == invocations["first"]
    IN  /\ c.tool = "search_movies"
        /\ Len(c.results) = 3
        /\ c.elicitation = AcceptedInt(3)
        /\ c.pc = "done"
        /\ c.outcome.kind = "result"
        /\ c.outcome.movie = c.results[3]

----------------------------------------------------------------------------
(* Properties of a REPL with its server *)

\* C21: a progress or log notification delivered while a tool call is in
\* flight leaves History as it was: History after the handler has run is
\* History before it was called.
C21_HandlersLeaveHistory ==
    [][(notification' # notification \/ shown' # shown) =>
           messages' = messages]_vars

C21_Witness ==
    /\ pc = "InToolCall"
    /\ elicit_result.action = "accept"
    /\ notification.kind = "log"
    /\ shown # NothingShown
    /\ Len(messages) >= 3

\* the operations of the conversation that are in flight
CompletionInFlight == pc = "AwaitingCompletion"
InvocationsInFlight ==
    {s \in Slots : invocations[s] # NoCall /\ invocations[s].pc = "pending"}

\* the assistant message that requested the round stands in History,
\* followed by the results of its first k calls and by nothing else
RoundAnsweredUpTo(msgs, k) ==
    LET p == Len(msgs) - k
    IN  /\ p >= 1
        /\ msgs[p] = response
        /\ \A i \in 1..k :
              /\ msgs[p + i].role = "tool"
              /\ msgs[p + i].tool_call_id =
                    Some(ToolCallAt(response.tool_calls, i).id)

\* C22: at most one operation among {LLM completion, tool invocation} is in
\* flight: an invocation starts only when the completion that requested it
\* has returned and every earlier invocation of the round has its result in
\* History (its elicitation answered); a completion starts only when no
\* invocation is pending and every request of the round is answered.
C22_OneOperationInFlight ==
    /\ [](/\ Cardinality(InvocationsInFlight) <= 1
          /\ ~(CompletionInFlight /\ InvocationsInFlight # {})
          /\ pc = "AwaitingElicitation" =>
                /\ InvocationsInFlight # {}
                /\ elicit_result = NoElicitResult
          /\ pc = "InToolCall" =>
                /\ InvocationsInFlight # {}
                /\ RoundAnsweredUpTo(messages, idx - 1))
    /\ [][/\ (\E s \in Slots : s \notin InvocationsInFlight
                                  /\ s \in InvocationsInFlight') =>
                /\ InvocationsInFlight = {}
                /\ pc = "AwaitingToolResults"
                /\ RoundAnsweredUpTo(messages, idx - 1)
          /\ (\E s \in InvocationsInFlight : s \notin InvocationsInFlight') =>
                /\ Asks(invocations["first"]) => elicit_result # NoElicitResult
                /\ RoundAnsweredUpTo(messages', idx)
          /\ (pc' = "AwaitingCompletion" /\ pc # "AwaitingCompletion"
                 /\ last' = "Dispatch") =>
                /\ InvocationsInFlight' = {}
                /\ RoundAnsweredUpTo(messages', Len(response.tool_calls))]_vars

C22_Witness ==
    /\ pc = "AwaitingElicitation"
    /\ idx = 2
    /\ Len(response.tool_calls) = 2
    /\ Last(messages).role = "tool"

\* C24: an interrupt during a blocking read of the terminal (the REPL prompt,
\* or the elicitation prompt of a tool call in flight) appends nothing to
\* History and takes the REPL to Idle or to the end of the process, at once
\* or, where the interrupt is deferred, when the elicitation read ends; a turn
\* abandoned for it appends no tool-result message, and the process once
\* ended appends none.
C24_InterruptUnwinds ==
    [][/\ (last' = "Interrupt" /\ (pc' # pc \/ cancelling' # cancelling)) =>
             /\ pc \in {"Idle", "AwaitingElicitation"}
             /\ messages' = messages
             /\ \/ pc' \in {"Idle", "Exited"}
                \/ pc = "AwaitingElicitation" /\ pc' = pc /\ cancelling'
       /\ (cancelling /\ pc = "AwaitingElicitation") =>
             /\ messages' = messages
             /\ pc' \in {"AwaitingElicitation", "Exited"}
       /\ (pc # "Exited" /\ pc' = "Exited"
              /\ last' \in {"Interrupt", "Cancelled"}) =>
             messages' = messages
       /\ pc = "Exited" => (pc' = "Exited" /\ messages' = messages)]_vars

C24_Witness ==
    /\ pc = "Exited"
    /\ last = "Interrupt"
    /\ request # NoRequest
    /\ elicit_result = NoElicitResult
    /\ InvocationsInFlight # {}
    /\ Last(messages).role = "assistant"
    /\ Last(messages).tool_calls # <<>>

\* the deferred interrupt of an elicitation read has ended the process
C24_DeferredWitness ==
    /\ pc = "Exited"
    /\ last = "Cancelled"
    /\ cancelling
    /\ elicit_result.action = "accept"
    /\ InvocationsInFlight # {}
    /\ Last(messages).role = "assistant"

\* the answer to its question makes search_movies fail: no accept, an accept
\* of false, or a number that is not one of the numbered movies
Rejected(c) ==
    /\ c.tool = "search_movies"
    /\ c.elicitation # NoElicitation
    /\ \/ c.elicitation.action # "accept"
       \/ SearchMoviesAsks(c.results) = "bool" /\ ~c.elicitation.bool
       \/ SearchMoviesAsks(c.results) = "int"
             /\ c.elicitation.int \notin 1..Len(c.results)

Resolves(s) == invocations[s].pc = "pending" /\ invocations'[s].pc = "done"

----------------------------------------------------------------------------
(* Properties of a session's calls made one after the other *)

Favorites == OrEmpty(session.favorites)

NoDuplicateIds(favorites) ==
    \A i, j \in 1..Len(favorites) :
        favorites[i].id = favorites[j].id => i = j

Returns(s) == invocations[s].pc # "done" /\ invocations'[s].pc = "done"

\* C31: with the calls of a session made one at a time, the favorites list
\* never holds one movie id twice; an add_to_favorites that succeeds for a
\* movie not in the list appends that movie at the end, one entry more, and
\* one for a movie in the list leaves it as it is; get_favorites returns the
\* list with count equal to its length.
C31_FavoritesListWellFormed ==
    /\ [](NoDuplicateIds(Favorites))
    /\ [][(Returns("first") /\ invocations["first"].tool = "add_to_favorites"
              /\ invocations'["first"].outcome.kind = "result") =>
             LET movie == LookupMovie(invocations["first"].title,
                                      invocations["first"].movie_id)[1]
             IN  IF \E k \in 1..Len(Favorites) : Favorites[k].id = movie.id
                 THEN Favorites' = Favorites
                 ELSE /\ Favorites' = Append(Favorites, Favorite(movie))
                      /\ Len(Favorites') = Len(Favorites) + 1]_vars
    /\ [][(Returns("first") /\ invocations["first"].tool = "get_favorites") =>
             /\ invocations'["first"].outcome.favorites = Favorites
             /\ invocations'["first"].outcome.count =
                   Len(invocations'["first"].outcome.favorites)
             /\ Favorites' = Favorites]_vars

C31_Witness ==
    /\ Len(Favorites) = 2
    /\ invocations["first"].tool = "get_favorites"
    /\ invocations["first"].pc = "done"
    /\ invocations["first"].outcome.count = 2
    /\ turn = 4

\* the name the session has stored, as text
StoredName == session.dog_name

DogReturns ==
    Returns("first") /\ invocations["first"].tool = "dog_to_human_age"

\* C32: a dog_to_human_age call with a non-empty name leaves that name
\* stored in the session whether it succeeds or fails, and its answer bears
\* it; a call without a name leaves the stored name as it is and answers with
\* the name stored last, or with the generic answer when none is stored.
C32_NameStoredAndReused ==
    [][DogReturns =>
          LET c == invocations["first"]
              o == invocations'["first"].outcome
          IN  IF c.name # None /\ c.name[1] # <<>>
              THEN /\ StoredName' = c.name
                   /\ o.kind = "result" => o.name = c.name
              ELSE /\ StoredName' = StoredName
                   /\ o.kind = "result" => o.name = StoredName]_vars

C32_Witness ==
    /\ client = "puppy"
    /\ turn = 3
    /\ StoredName = Some(<<"Bo">>)
    /\ invocations["first"].pc = "done"
    /\ invocations["first"].name = None
    /\ invocations["first"].outcome.kind = "result"
    /\ invocations["first"].outcome.name = Some(<<"Bo">>)

\* a name stays stored after the call that gave it has failed
C32_FailedCallWitness ==
    /\ StoredName = Some(<<"Rex">>)
    /\ invocations["first"].pc = "done"
    /\ invocations["first"].name = Some(<<"Rex">>)
    /\ invocations["first"].outcome.kind = "tool_error"
    /\ turn = 1

----------------------------------------------------------------------------
(* The shape of History at Idle *)

RECURSIVE TurnGroupsFrom(_, _, _, _)
\* msgs from position i on continues a sequence of turn groups; expect says
\* what must come next, p is the position of the assistant message whose
\* tool calls are being answered
TurnGroupsFrom(msgs, i, expect, p) ==
    IF i > Len(msgs) THEN expect = "user"
    ELSE LET m == msgs[i]
         IN  IF expect = "user"
             THEN m.role = "user" /\ TurnGroupsFrom(msgs, i + 1, "assistant", 0)
             ELSE IF expect = "assistant"
             THEN /\ m.role = "assistant"
                  /\ IF m.tool_calls = <<>>
                     THEN TurnGroupsFrom(msgs, i + 1, "user", 0)
                     ELSE TurnGroupsFrom(msgs, i + 1, "tool", i)
             ELSE /\ m.role = "tool"
                  /\ m.tool_call_id = Some(msgs[p].tool_calls[i - p].id)
                  /\ IF i - p = Len(msgs[p].tool_calls)
                     THEN TurnGroupsFrom(msgs, i + 1, "assistant", 0)
                     ELSE TurnGroupsFrom(msgs, i + 1, "tool", p)

\* C33: whenever a REPL is in Idle, History is the system message followed
\* by complete turn groups: a user message, then rounds of an assistant
\* message with tool calls and one tool message per call, then an assistant
\* message without tool calls; no user message lacks its final answer.
C33_IdleHistoryIsWholeTurns ==
    (client \in ReplClients /\ pc = "Idle") =>
        /\ Len(messages) >= 1
        /\ messages[1] = SystemMessage(client)
        /\ TurnGroupsFrom(messages, 2, "user", 0)

C33_Witness ==
    /\ client \in ReplClients
    /\ pc = "Idle"
    /\ Len(messages) = 5
    /\ messages[3].tool_calls # <<>>
    /\ IsErrorResult(messages[4])
    /\ MAX_HISTORY = 4

----------------------------------------------------------------------------
(* The end of a turn *)

InTurn == pc \in {"AwaitingCompletion", "AwaitingToolResults"}

\* until a turn ends History only grows, by the assistant message of a
\* completion and by one tool message for each call dispatched
TurnGrowsHistory ==
    [][(InTurn /\ client \in ReplClients) =>
          /\ Len(messages') \in {Len(messages), Len(messages) + 1}
          /\ SubSeq(messages', 1, Len(messages)) = messages
          /\ (pc = "AwaitingCompletion" /\ pc' # pc) =>
                /\ Last(messages').role = "assistant"
                /\ pc' = "AwaitingToolResults" <=>
                      Last(messages').tool_calls # <<>>
          /\ (pc = "AwaitingToolResults" /\ pc' = "AwaitingCompletion") =>
                idx' = Len(response.tool_calls) + 1]_vars

\* C34 (as claimed): a turn returns only on a completion without tool calls,
\* History grows by the assistant message and one tool message per call of
\* each round, and with every completion and invocation resolving and the
\* LLM in the end answering without tool calls, the turn reaches Idle (the
\* one-shot client: its end).
C34_TurnReachesIdle ==
    /\ TurnGrowsHistory
    /\ InTurn ~> (pc \in {"Idle", "Done"})

----------------------------------------------------------------------------
(* The actions the elicitation handlers answer with *)

\* C35: neither client's elicitation handler answers cancel: for every
\* request and every line typed, what it returns is accept or decline, and
\* no tool invocation made through these clients sees a cancelled
\* elicitation.
C35_HandlersNeverCancel ==
    /\ \A c \in ReplClients, req \in ElicitationRequests, line \in TerminalLines :
          LET r == ElicitationHandler(c, req, line).result
          IN  r.action # "raise" => r.action \in {"accept", "decline"}
    /\ elicit_result.action \in {"none", "accept", "decline", "raise"}
    /\ \A s \in Slots :
          /\ invocations[s].elicitation.action # "cancel"
          /\ invocations[s].outcome.cause # "cancelled by user"

C35_Witness ==
    /\ client = "puppy"
    /\ elicit_result.action = "decline"
    /\ invocations["first"].elicitation = Declined
    /\ invocations["first"].pc = "done"
    /\ invocations["first"].outcome.kind = "tool_error"

----------------------------------------------------------------------------
(* The progress one tool invocation reports *)

Reported == notification.progress \div Scale
ReportedTotal == notification.total[1] \div Scale
Reports == notification' # notification

\* C36: the progress values one invocation reports never decrease and never
\* exceed the total reported with them; dog_to_human_age reports 0, 1, 2 and
\* then its total, 4, on every call that succeeds and nothing once it has
\* failed; get_top_movies reports 0 and then 1, 2, ... for the rows it
\* processes, none above n.
C36_ProgressMonotoneWithinTotal ==
    /\ [][Reports =>
             /\ invocations["first"].pc # "done"
             /\ notification'.kind = "progress"
             /\ notification'.total # None
             /\ notification'.progress <= notification'.total[1]
             /\ notification.kind = "progress" =>
                   /\ notification'.progress >= notification.progress
                   /\ notification'.total = notification.total]_vars
    /\ [][(Reports /\ client = "puppy") =>
             /\ ReportedTotal' = 4
             /\ IF notification.kind # "progress" THEN Reported' = 0
                ELSE <<Reported, Reported'>> \in {<<0, 1>>, <<1, 2>>, <<2, 4>>}]_vars
    /\ [][(Reports /\ client = "netflix") =>
             /\ ReportedTotal' = invocations["first"].n
             /\ IF notification.kind # "progress" THEN Reported' = 0
                ELSE Reported' = Reported + 1]_vars
    /\ [](invocations["first"].pc = "done" =>
             LET c == invocations["first"]
             IN  /\ notification.kind = "progress"
                 /\ (c.tool = "dog_to_human_age" /\ c.outcome.kind = "result")
                       => Reported = 4
                 /\ (c.tool = "dog_to_human_age" /\ c.outcome.kind # "result")
                       => Reported < 4
                 /\ c.tool = "get_top_movies" =>
                       /\ Reported = Len(c.outcome.favorites)
                       /\ Reported <= c.n)

C36_Witness ==
    /\ client = "netflix"
    /\ invocations["first"].pc = "done"
    /\ invocations["first"].n = 2
    /\ Reported = 2
    /\ ReportedTotal = 2
    /\ Len(invocations["first"].outcome.favorites) = 2

\* a dog call that succeeded after a question has reported its total
C36_DogWitness ==
    /\ client = "puppy"
    /\ invocations["first"].pc = "done"
    /\ invocations["first"].outcome.kind = "result"
    /\ invocations["first"].elicitation.action = "accept"
    /\ Reported = 4

----------------------------------------------------------------------------
(* Empty input and the tool list of a session *)

Blank(line) == \A k \in 1..Len(line) : line[k] = " "

\* C37: in the Netflix REPL an empty or whitespace-only line read in Idle
\* leaves History as it is and asks for no completion; every completion of
\* the session is given the tool list fetched once, at connection start.
C37_BlankLineAndToolsOnce ==
    /\ [][(pc = "Idle"
              /\ \E line \in UserLines : Blank(line) /\ ReadInput(line)) =>
             /\ messages' = messages
             /\ pc' = "Idle"
             /\ offered' = offered]_vars
    /\ [][(tools' # tools) => (pc = "Connecting" /\ tools = None)]_vars
    /\ [][(pc = "AwaitingCompletion" /\ pc' # pc) =>
             /\ tools # None
             /\ offered' = tools
             /\ tools' = tools]_vars

C37_Witness ==
    /\ pc = "Idle"
    /\ last = "Empty"
    /\ Len(messages) = 3
    /\ offered # None
    /\ offered = tools
    /\ GetToolsForOpenai(mcp_tools) # tools[1]

----------------------------------------------------------------------------
(* The approval cycle of the LangChain agent *)

\* C38: _approve_tool_calls returns one approve decision for each pending
\* action request, in their order, after one confirmation read for each;
\* the agent is resumed with exactly those decisions, and an answer is
\* printed for the turn only when the run ended with no interrupt pending.
C38_ApproveEachThenAnswer ==
    [][/\ (pc = "Approving" /\ pc' = "Invoking") =>
              /\ inputs'.kind = "resume"
              /\ Len(inputs'.decisions) = Len(hitl_request[1])
              /\ \A i \in 1..Len(hitl_request[1]) :
                     inputs'.decisions[i] = "approve"
              /\ confirmations = Len(hitl_request[1])
       /\ (confirmations' # confirmations /\ confirmations' # 0) =>
              /\ confirmations' = confirmations + 1
              /\ confirmations' <= Len(hitl_request[1])
              /\ idx = confirmations'
       /\ (pc = "Invoking" /\ pc' = "Approving") =>
              /\ hitl_request' # None
              /\ answer' = answer
              /\ inputs' = inputs
       /\ (answer' # answer \/ last' = "AgentAnswer") =>
              /\ pc = "Invoking"
              /\ pc' = "Idle"
              /\ hitl_request' = None
              /\ answer' = response'.content[1]
      ]_vars

\* two requests were confirmed and approved, the agent went on and the
\* turn's answer is printed
C38_Witness ==
    /\ client = "langchain"
    /\ pc = "Idle"
    /\ last = "AgentAnswer"
    /\ inputs.kind = "resume"
    /\ inputs.decisions = <<"approve", "approve">>
    /\ confirmations = 2
    /\ hitl_request = None

============================================================================
